---- MODULE Spec2Model ----
(***************************************************************************)
(* Attendance statistics, performer ranking and attendance filtering of    *)
(* the troupe attendance tracker: server/storage.ts (getStats,             *)
(* getReportStats), the report export route and the Reports page.          *)
(***************************************************************************)
EXTENDS Integers, Sequences, FiniteSets, TLC

(***************************************************************************)
(* JavaScript numbers.  presentCount / length and (...) * 100 are IEEE-754 *)
(* binary64 operations, each rounded to nearest, ties to even.  A positive *)
(* double is modelled by its 53 significand bits (most significant first)  *)
(* and the exponent of its leading bit:                                    *)
(*    value = SUM i \in 1..53 : bits[i] * 2^(exp - (i - 1)).               *)
(***************************************************************************)
MantissaBits == 53

\* The model multiplies a significand as three limbs of this width.
LimbBits == (MantissaBits + 2) \div 3

DoubleZero == [zero |-> TRUE, bits |-> <<>>, exp |-> 0]

\* 2^e, by repeated squaring.
RECURSIVE Pow2(_)
Pow2(e) ==
  IF e = 0 THEN 1
  ELSE IF e % 2 = 0 THEN LET h == Pow2(e \div 2) IN h * h
  ELSE 2 * Pow2(e - 1)

\* 2^e modulo b, by repeated squaring.
RECURSIVE PowMod2(_, _)
PowMod2(e, b) ==
  IF e = 0 THEN 1 % b
  ELSE IF e % 2 = 0 THEN LET h == PowMod2(e \div 2, b) IN (h * h) % b
  ELSE (2 * PowMod2(e - 1, b)) % b

\* The number of binary digits of an integer n >= 1 (n < 2^30).
BitLength(n) == Cardinality({i \in 0..30 : Pow2(i) <= n})

\* The w low binary digits of n, most significant first.
LowBits(n, w) == [i \in 1..w |-> (n \div Pow2(w - i)) % 2]

\* Binary digits of a positive integer, most significant first.
Binary(n) == LowBits(n, BitLength(n))

\* The integer a bit string denotes (halving the string).
RECURSIVE BitsValue(_)
BitsValue(bits) ==
  IF bits = <<>> THEN 0
  ELSE IF Len(bits) = 1 THEN bits[1]
  ELSE LET h == Len(bits) \div 2
       IN  BitsValue(SubSeq(bits, 1, h)) * Pow2(Len(bits) - h)
             + BitsValue(SubSeq(bits, h + 1, Len(bits)))

\* The next k quotient bits of r / b (0 <= r < b) and the remainder left:
\* long division, whose remainder after i steps is (r * 2^i) mod b.
DivBits(r, b, k) ==
  [bits |-> [i \in 1..k |->
               IF 2 * ((r * PowMod2(i - 1, b)) % b) >= b THEN 1 ELSE 0],
   rem  |-> (r * PowMod2(k, b)) % b]

\* The least e >= 1 with r * 2^e >= b (0 < r < b).
RECURSIVE LeadShift(_, _)
LeadShift(r, b) == IF 2 * r >= b THEN 1 ELSE 1 + LeadShift(2 * r, b)

\* bits + 1, with the carry out of the leading bit.
IncBits(bits) ==
  IF \A i \in 1..Len(bits) : bits[i] = 1
  THEN [bits |-> [i \in 1..Len(bits) |-> 0], carry |-> 1]
  ELSE LET z == CHOOSE i \in 1..Len(bits) :
                  bits[i] = 0 /\ \A j \in (i + 1)..Len(bits) : bits[j] = 1
       IN  [bits |-> [i \in 1..Len(bits) |->
                        IF i < z THEN bits[i] ELSE IF i = z THEN 1 ELSE 0],
            carry |-> 0]

\* Round-to-nearest-even of a significand: roundUp tells whether the
\* discarded part is above one half, or exactly one half with an odd last bit.
RoundSignificand(bits, exp, roundUp) ==
  IF ~roundUp THEN [zero |-> FALSE, bits |-> bits, exp |-> exp]
  ELSE LET up == IncBits(bits)
       IN  IF up.carry = 0
           THEN [zero |-> FALSE, bits |-> up.bits, exp |-> exp]
           ELSE [zero |-> FALSE,
                 bits |-> <<1>> \o SubSeq(up.bits, 1, Len(up.bits) - 1),
                 exp  |-> exp + 1]

\* a / b in binary64, for integers a >= 0, b >= 1.
FDiv(a, b) ==
  IF a = 0 THEN DoubleZero
  ELSE LET q == a \div b
           r == a % b
       IN  IF q > 0
           THEN LET ib == Binary(q)
                    d  == DivBits(r, b, MantissaBits - Len(ib))
                    raw == ib \o d.bits
                IN  RoundSignificand(raw, Len(ib) - 1,
                      \/ 2 * d.rem > b
                      \/ (2 * d.rem = b /\ raw[MantissaBits] = 1))
           ELSE LET e == LeadShift(r, b)
                    d == DivBits(r * Pow2(e - 1), b, MantissaBits)
                IN  RoundSignificand(d.bits, 0 - e,
                      \/ 2 * d.rem > b
                      \/ (2 * d.rem = b /\ d.bits[MantissaBits] = 1))

\* The exact product of a 53-bit string and a small integer c (c < 2^12),
\* as a bit string: schoolbook multiplication on three limbs of LimbBits bits.
MulBits(bits, c) ==
  LET n   == Len(bits)
      B   == Pow2(LimbBits)
      lo  == BitsValue(SubSeq(bits, n - LimbBits + 1, n))
      mid == BitsValue(SubSeq(bits, n - 2 * LimbBits + 1, n - LimbBits))
      hi  == BitsValue(SubSeq(bits, 1, n - 2 * LimbBits))
      t0  == c * lo
      t1  == c * mid + t0 \div B
      t2  == c * hi + t1 \div B
  IN  Binary(t2) \o LowBits(t1 % B, LimbBits) \o LowBits(t0 % B, LimbBits)

\* x * c in binary64, for a double x >= 0 and an integer c >= 64.
FMul(x, c) ==
  IF x.zero THEN DoubleZero
  ELSE LET p     == MulBits(x.bits, c)
           kept  == SubSeq(p, 1, MantissaBits)
           guard == p[MantissaBits + 1]
           sticky == \E i \in (MantissaBits + 2)..Len(p) : p[i] = 1
       IN  RoundSignificand(kept, x.exp + (Len(p) - MantissaBits),
             guard = 1 /\ (sticky \/ kept[MantissaBits] = 1))

\* Math.round of a double x >= 0: the nearest integer, a tie going up.
MathRound(x) ==
  IF x.zero THEN 0
  ELSE IF x.exp < -1 THEN 0
  ELSE IF x.exp = -1 THEN 1
  ELSE BitsValue(SubSeq(x.bits, 1, x.exp + 1)) + x.bits[x.exp + 2]

\* The ratio with its operands exchanged: Math.round((length / presentCount) * 100).
PercentageInverted(presentCount, length) ==
  IF presentCount > 0
  THEN MathRound(FMul(FDiv(length, presentCount), 100)) ELSE 0

\* Math.round((presentCount / length) * 100), guarded against length = 0.
Percentage(presentCount, length) ==
  IF length > 0 THEN MathRound(FMul(FDiv(presentCount, length), 100)) ELSE 0

\* The mean cut off instead of rounded: Math.floor(sum / length).
AverageTruncated(sum, length) == IF length > 0 THEN sum \div length ELSE 0

\* Math.round(sum / length), guarded against length = 0.
Average(sum, length) ==
  IF length > 0 THEN MathRound(FDiv(sum, length)) ELSE 0

(***************************************************************************)
(* Calendar dates.  A date column value and an <input type="date"> value   *)
(* are "YYYY-MM-DD" strings, modelled as <<year, month, day>>.             *)
(***************************************************************************)
\* new Date("YYYY-MM-DD").getTime(), in days: the string is read as UTC
\* midnight, so the time value is 86400000 * (days since 1970-01-01).
DateParse(date) ==
  LET y   == IF date[2] <= 2 THEN date[1] - 1 ELSE date[1]
      era == y \div 400
      yoe == y - era * 400
      mp  == IF date[2] > 2 THEN date[2] - 3 ELSE date[2] + 9
      doy == (153 * mp + 2) \div 5 + date[3] - 1
      doe == yoe * 365 + yoe \div 4 - yoe \div 100 + doy
  IN  era * 146097 + doe - 719468

\* toISOString().split('T')[0] of the instant z days after 1970-01-01.
DateString(z) ==
  LET n   == z + 719468
      era == n \div 146097
      doe == n - era * 146097
      yoe == (doe - doe \div 1460 + doe \div 36524 - doe \div 146096) \div 365
      doy == doe - (365 * yoe + yoe \div 4 - yoe \div 100)
      mp  == (5 * doy + 2) \div 153
      d   == doy - (153 * mp + 2) \div 5 + 1
      m   == IF mp < 10 THEN mp + 3 ELSE mp - 9
      y   == yoe + era * 400
  IN  <<IF m <= 2 THEN y + 1 ELSE y, m, d>>

\* Order of the date column (the database's >=).
DateGte(a, b) ==
  \/ a[1] > b[1]
  \/ (a[1] = b[1] /\ a[2] > b[2])
  \/ (a[1] = b[1] /\ a[2] = b[2] /\ a[3] >= b[3])

(***************************************************************************)
(* The store: the members and attendance tables.                           *)
(***************************************************************************)
VARIABLES members, attendance, nextMemberId, response, input, output

\* The notifications, polls and poll_responses tables.
VARIABLES notifications, polls, pollResponses

\* The users (identity), stories and characters tables, the session store,
\* and the request whose handler is between two of its awaits.
VARIABLES users, stories, characters, sessions, inflight

vars == <<members, attendance, nextMemberId, response, input, output,
          notifications, polls, pollResponses,
          users, stories, characters, sessions, inflight>>

pollStore == <<notifications, polls, pollResponses>>

accountStore == <<users, stories, characters, sessions, inflight>>

\* No handler is between two awaits.
Idle == [step |-> "idle"]

\* Bounds of the store model.
MaxMembers == 1
MaxAttendance == 2

\* Bounds of the pure-function specifications: the attendance records of one
\* member, and the members ranked.
MaxRecords == 40
MaxRanked == 6

Names == {"Asha", "Ravi"}
\* status is a varchar column that no schema restricts to the three values.
Statuses == {"present", "absent", "replaced", "late"}
\* The server clock at a request, and the dates attendance is entered for.
Clock == {<<2024, 1, 1>>, <<2024, 1, 2>>}
AttendanceDates == {<<2023, 12, 25>>, <<2024, 1, 2>>}

NoResponse == [op |-> "none"]
NoValue == [fn |-> "none"]

IsPresent(a) == a.status = "present" \/ a.status = "replaced"

Min(a, b) == IF a <= b THEN a ELSE b
Max(a, b) == IF a >= b THEN a ELSE b

\* The two roundings of the aggregator, tabulated once over the counts the
\* bounded model can produce.
PercentageOf ==
  [length \in 0..MaxRecords |->
     [presentCount \in 0..length |-> Percentage(presentCount, length)]]

AverageOf ==
  [length \in 0..MaxRanked |->
     [sum \in 0..(100 * length) |-> Average(sum, length)]]

\* memberStats of getReportStats: one {name, percentage} per member, in the
\* order the member query enumerated them.
MemberStats(allMembers, allAttendance) ==
  [i \in 1..Len(allMembers) |->
     LET memberAttendance ==
           SelectSeq(allAttendance, LAMBDA a : a.memberId = allMembers[i].id)
         presentCount == Len(SelectSeq(memberAttendance, IsPresent))
     IN  [name       |-> allMembers[i].name,
          percentage |-> PercentageOf[Len(memberAttendance)][presentCount]]]

\* An insertion that puts an element before the elements equal to it.
InsertBeforeEqual(sorted, m) ==
  LET k == Cardinality({i \in 1..Len(sorted) :
                          sorted[i].percentage > m.percentage})
  IN  SubSeq(sorted, 1, k) \o <<m>> \o SubSeq(sorted, k + 1, Len(sorted))

\* Array.prototype.sort((a, b) => b.percentage - a.percentage): a stable sort,
\* here by insertion; an element goes after every element the comparator
\* does not order after it.
InsertByPercentage(sorted, m) ==
  LET k == Cardinality({i \in 1..Len(sorted) :
                          sorted[i].percentage >= m.percentage})
  IN  SubSeq(sorted, 1, k) \o <<m>> \o SubSeq(sorted, k + 1, Len(sorted))

RECURSIVE SortByPercentage(_)
SortByPercentage(memberStats) ==
  IF memberStats = <<>> THEN <<>>
  ELSE InsertByPercentage(
         SortByPercentage(SubSeq(memberStats, 1, Len(memberStats) - 1)),
         memberStats[Len(memberStats)])

\* memberStats.reduce((sum, m) => sum + m.percentage, 0)
RECURSIVE SumPercentages(_)
SumPercentages(memberStats) ==
  IF memberStats = <<>> THEN 0
  ELSE SumPercentages(SubSeq(memberStats, 1, Len(memberStats) - 1))
         + memberStats[Len(memberStats)].percentage

Reverse(s) == [i \in 1..Len(s) |-> s[Len(s) + 1 - i]]

\* One entry too many: sorted.slice(0, 4).
TopPerformersFour(sorted) == SubSeq(sorted, 1, Min(4, Len(sorted)))

\* sorted.slice(0, 3)
TopPerformers(sorted) == SubSeq(sorted, 1, Min(3, Len(sorted)))

\* The slice without its reversal: sorted.slice(-3).
LowPerformersUnreversed(sorted) ==
  SubSeq(sorted, Max(1, Len(sorted) - 2), Len(sorted))

\* sorted.slice(-3).reverse()
LowPerformers(sorted) ==
  Reverse(SubSeq(sorted, Max(1, Len(sorted) - 2), Len(sorted)))

AverageAttendance(memberStats) ==
  AverageOf[Len(memberStats)][SumPercentages(memberStats)]

\* The part of getReportStats after the per-member map.
ReportStats(memberStats) ==
  LET sorted == SortByPercentage(memberStats)
  IN  [op                |-> "getReportStats",
       totalMembers      |-> Len(memberStats),
       averageAttendance |-> AverageAttendance(sorted),
       topPerformers     |-> TopPerformers(sorted),
       lowPerformers     |-> LowPerformers(sorted)]

\* The date getStats compares with: seven days before the server's now.
OneWeekAgo(now) == DateString(DateParse(now) - 7)

\* getStats at server date `now` (the show and notification counts, tables
\* this model leaves out, are not part of the response modelled).
Stats(allMembers, allAttendance, now) ==
  LET recentAttendance ==
        SelectSeq(allAttendance, LAMBDA a : DateGte(a.date, OneWeekAgo(now)))
      presentCount == Len(SelectSeq(recentAttendance, IsPresent))
  IN  [op               |-> "getStats",
       at               |-> now,
       totalMembers     |-> Len(allMembers),
       recentAttendance |->
         PercentageOf[Len(recentAttendance)][presentCount]]

(***************************************************************************)
(* The requests that read and change the store.                            *)
(***************************************************************************)
\* POST /api/members -> storage.createMember
CreateMember(name) ==
  /\ nextMemberId <= MaxMembers + 1
  /\ members' = Append(members, [id |-> nextMemberId, name |-> name])
  /\ nextMemberId' = nextMemberId + 1
  /\ response' = NoResponse
  /\ UNCHANGED <<attendance, input, output, pollStore,
               accountStore>>

\* DELETE /api/members/:id -> storage.deleteMember; the member's attendance
\* rows go with it (attendance.member_id is ON DELETE CASCADE).
DeleteMember(id) ==
  /\ \E i \in 1..Len(members) : members[i].id = id
  /\ members' = SelectSeq(members, LAMBDA m : m.id # id)
  /\ attendance' = SelectSeq(attendance, LAMBDA a : a.memberId # id)
  /\ response' = NoResponse
  /\ UNCHANGED <<nextMemberId, input, output, pollStore,
               accountStore>>

\* POST /api/attendance and POST /api/attendance/admin ->
\* storage.createAttendance; the insert fails unless member_id names a member.
CreateAttendance(memberId, date, status) ==
  /\ Len(attendance) < MaxAttendance
  /\ \E i \in 1..Len(members) : members[i].id = memberId
  /\ attendance' = Append(attendance,
       [memberId |-> memberId, date |-> date, status |-> status])
  /\ response' = NoResponse
  /\ UNCHANGED <<members, nextMemberId, input, output, pollStore,
               accountStore>>

\* GET /api/stats
GetStats(now) ==
  /\ response' = Stats(members, attendance, now)
  /\ UNCHANGED <<members, attendance, nextMemberId, input, output,
               pollStore, accountStore>>

\* GET /api/reports/stats
GetReportStats ==
  /\ response' = ReportStats(MemberStats(members, attendance))
  /\ UNCHANGED <<members, attendance, nextMemberId, input, output,
               pollStore, accountStore>>

\* The store after startup: seedSampleData has created the admin member.
Init ==
  /\ members = <<[id |-> 1, name |-> "Admin User"]>>
  /\ attendance = <<>>
  /\ nextMemberId = 2
  /\ response = NoResponse
  /\ notifications = <<>> /\ polls = <<>> /\ pollResponses = <<>>
  /\ users = <<>> /\ stories = <<>> /\ characters = <<>>
  /\ sessions = {} /\ inflight = Idle
  /\ input = NoValue
  /\ output = NoValue

Next ==
  \/ \E name \in Names : CreateMember(name)
  \/ \E id \in 1..(MaxMembers + 1) : DeleteMember(id)
  \/ \E id \in 1..(MaxMembers + 1), date \in AttendanceDates,
        status \in Statuses : CreateAttendance(id, date, status)
  \/ \E now \in Clock : GetStats(now)
  \/ GetReportStats

Spec == Init /\ [][Next]_vars

(***************************************************************************)
(* The per-member percentage as a function of the member's counts.         *)
(***************************************************************************)
store == <<members, attendance, nextMemberId, response, pollStore,
          accountStore>>

\* One member's attendance: presentCount of its length records are present
\* or replaced.
PctInit ==
  /\ members = <<>> /\ attendance = <<>> /\ nextMemberId = 1
  /\ response = NoResponse
  /\ notifications = <<>> /\ polls = <<>> /\ pollResponses = <<>>
  /\ users = <<>> /\ stories = <<>> /\ characters = <<>>
  /\ sessions = {} /\ inflight = Idle
  /\ \E length \in 0..MaxRecords : \E presentCount \in 0..length :
       input = [fn |-> "percentage", presentCount |-> presentCount,
                length |-> length]
  /\ output = NoValue

\* The percentage expression of getReportStats (and of getStats).
ComputePercentage ==
  /\ input.fn = "percentage" /\ output.fn = "none"
  /\ output' = [fn |-> "percentage",
                value |-> PercentageOf[input.length][input.presentCount]]
  /\ UNCHANGED <<store, input>>

SpecPct == PctInit /\ [][ComputePercentage]_vars

(***************************************************************************)
(* The ranking of getReportStats as a function of memberStats.             *)
(***************************************************************************)
RankNames == <<"Asha", "Bela", "Chand", "Dev", "Esha", "Firoz", "Gita", "Hari">>
RankPercentages == {50, 60, 70, 80, 90}

RankInit ==
  /\ members = <<>> /\ attendance = <<>> /\ nextMemberId = 1
  /\ response = NoResponse
  /\ notifications = <<>> /\ polls = <<>> /\ pollResponses = <<>>
  /\ users = <<>> /\ stories = <<>> /\ characters = <<>>
  /\ sessions = {} /\ inflight = Idle
  /\ \E n \in 0..MaxRanked : \E pct \in [1..n -> RankPercentages] :
       input = [fn |-> "reportStats",
                memberStats |-> [i \in 1..n |->
                  [name |-> RankNames[i], percentage |-> pct[i]]]]
  /\ output = NoValue

\* getReportStats from the sort on; sorted is the array the slices are
\* taken from.
ComputeReportStats ==
  /\ input.fn = "reportStats" /\ output.fn = "none"
  /\ output' = [fn |-> "reportStats",
                sorted |-> SortByPercentage(input.memberStats),
                stats |-> ReportStats(input.memberStats)]
  /\ UNCHANGED <<store, input>>

SpecRank == RankInit /\ [][ComputeReportStats]_vars

(***************************************************************************)
(* The attendance filter of the Reports page and of the report export.     *)
(* A string filter is a string, or Undefined when the request leaves it    *)
(* out; a date filter is undefined, the empty string or a date string.     *)
(***************************************************************************)
Undefined == "<undefined>"
Null == "<null>"

DateUndefined == [t |-> "undefined"]
DateEmpty == [t |-> "empty"]
DateValue(date) == [t |-> "date", date |-> date]

\* JavaScript truthiness of a filter value.
Truthy(dateFilter) == dateFilter.t = "date"

\* The page's callback with the bounds exclusive (<= and >= for < and >).
PageKeepsExclusive(record, f) ==
  /\ ~(Truthy(f.dateFrom)
        /\ DateParse(record.date) <= DateParse(f.dateFrom.date))
  /\ ~(Truthy(f.dateTo)
        /\ DateParse(record.date) >= DateParse(f.dateTo.date))
  /\ ~(f.statusFilter # "all" /\ record.status # f.statusFilter)
  /\ ~(f.storyFilter # "all" /\ record.storyId # f.storyFilter)
  /\ ~(f.memberFilter # "all" /\ record.memberId # f.memberFilter)
  /\ ~(f.eventFilter # "all" /\ record.eventType # f.eventFilter)

\* ReportsPage.filteredAttendance: the callback's verdict on one record.
PageKeeps(record, f) ==
  /\ ~(Truthy(f.dateFrom)
        /\ DateParse(record.date) < DateParse(f.dateFrom.date))
  /\ ~(Truthy(f.dateTo)
        /\ DateParse(record.date) > DateParse(f.dateTo.date))
  /\ ~(f.statusFilter # "all" /\ record.status # f.statusFilter)
  /\ ~(f.storyFilter # "all" /\ record.storyId # f.storyFilter)
  /\ ~(f.memberFilter # "all" /\ record.memberId # f.memberFilter)
  /\ ~(f.eventFilter # "all" /\ record.eventType # f.eventFilter)

PageFilter(records, f) == SelectSeq(records, LAMBDA r : PageKeeps(r, f))

\* The export's callback with the status predicate left out.
ExportKeepsAnyStatus(record, f) ==
  /\ ~(Truthy(f.dateFrom)
        /\ DateParse(record.date) < DateParse(f.dateFrom.date))
  /\ ~(Truthy(f.dateTo)
        /\ DateParse(record.date) > DateParse(f.dateTo.date))
  /\ ~(f.storyFilter # "all" /\ record.storyId # f.storyFilter)
  /\ ~(f.memberFilter # "all" /\ record.memberId # f.memberFilter)

\* POST /api/reports/export: the callback's verdict on one record.
ExportKeeps(record, f) ==
  /\ ~(Truthy(f.dateFrom)
        /\ DateParse(record.date) < DateParse(f.dateFrom.date))
  /\ ~(Truthy(f.dateTo)
        /\ DateParse(record.date) > DateParse(f.dateTo.date))
  /\ ~(f.statusFilter # "all" /\ record.status # f.statusFilter)
  /\ ~(f.storyFilter # "all" /\ record.storyId # f.storyFilter)
  /\ ~(f.memberFilter # "all" /\ record.memberId # f.memberFilter)

\* let filtered = allAttendance; if (filters) filtered = filtered.filter(...)
ExportFilter(records, f) ==
  IF f.given THEN SelectSeq(records, LAMBDA r : ExportKeeps(r, f))
  ELSE records

\* Bound of the filter model: the records of the collection filtered.
MaxFiltered == 3

\* The columns of an attendance row the filters read.
RecordShapes ==
  { [date |-> <<2024, 1, 9>>, status |-> "present", storyId |-> "s1",
     memberId |-> "m1", eventType |-> "JJ"],
    [date |-> <<2024, 1, 10>>, status |-> "present", storyId |-> "s2",
     memberId |-> "m2", eventType |-> "Holi"],
    [date |-> <<2024, 1, 10>>, status |-> "absent", storyId |-> Null,
     memberId |-> "m1", eventType |-> Null],
    [date |-> <<2024, 2, 1>>, status |-> "replaced", storyId |-> "s1",
     memberId |-> "m2", eventType |-> "JJ"],
    [date |-> <<2023, 12, 31>>, status |-> "late", storyId |-> Null,
     memberId |-> "m1", eventType |-> "Other"] }

WithId(shape, id) ==
  [id |-> id, date |-> shape.date, status |-> shape.status,
   storyId |-> shape.storyId, memberId |-> shape.memberId,
   eventType |-> shape.eventType]

\* The filter objects a request body can carry, and no filters at all.
FilterSpecs ==
  [given        : {TRUE},
   dateFrom     : {DateEmpty, DateValue(<<2024, 1, 10>>)},
   dateTo       : {DateEmpty, DateValue(<<2024, 1, 10>>)},
   statusFilter : {"all", "present", "", Undefined},
   storyFilter  : {"all", "s1", Undefined},
   memberFilter : {"all", "m1", Undefined},
   eventFilter  : {"all", "JJ"}]

NoFilters ==
  [given |-> FALSE, dateFrom |-> DateUndefined, dateTo |-> DateUndefined,
   statusFilter |-> Undefined, storyFilter |-> Undefined,
   memberFilter |-> Undefined, eventFilter |-> Undefined]

\* What the page's state can hold: its inputs and selects give strings, the
\* selects never the empty string.
OnPage(f) ==
  /\ f.given
  /\ f.dateFrom.t # "undefined" /\ f.dateTo.t # "undefined"
  /\ f.statusFilter \notin {"", Undefined}
  /\ f.storyFilter \notin {"", Undefined}
  /\ f.memberFilter \notin {"", Undefined}
  /\ f.eventFilter \notin {"", Undefined}

FilterInit ==
  /\ members = <<>> /\ attendance = <<>> /\ nextMemberId = 1
  /\ response = NoResponse
  /\ notifications = <<>> /\ polls = <<>> /\ pollResponses = <<>>
  /\ users = <<>> /\ stories = <<>> /\ characters = <<>>
  /\ sessions = {} /\ inflight = Idle
  /\ \E n \in 0..MaxFiltered : \E shape \in [1..n -> RecordShapes] :
       \E f \in FilterSpecs \cup {NoFilters} :
         input = [fn |-> "filter",
                  records |-> [i \in 1..n |-> WithId(shape[i], i)],
                  filters |-> f]
  /\ output = NoValue

\* The Reports page lists the filtered attendance.
FilterOnPage ==
  /\ input.fn = "filter" /\ output.fn = "none"
  /\ OnPage(input.filters)
  /\ output' = [fn |-> "page",
                kept |-> PageFilter(input.records, input.filters)]
  /\ UNCHANGED <<store, input>>

\* The export route filters the attendance it is about to render.
FilterOnExport ==
  /\ input.fn = "filter" /\ output.fn = "none"
  /\ output' = [fn |-> "export",
                kept |-> ExportFilter(input.records, input.filters)]
  /\ UNCHANGED <<store, input>>

FilterNext == FilterOnPage \/ FilterOnExport

SpecFilter == FilterInit /\ [][FilterNext]_vars

(***************************************************************************)
(* Properties.                                                             *)
(***************************************************************************)
\* floor(num / den + 1/2) for integers num >= 0, den >= 1.
RoundHalfUp(num, den) == (2 * num + den) \div (2 * den)

Range(s) == {s[i] : i \in 1..Len(s)}

\* C1: for a member with N attendance records of any status, P of them
\* present or replaced, getReportStats reports round-half-up(100 * P / N),
\* and 0 when N = 0.
C1_PercentageIsRoundHalfUp ==
  output.fn = "percentage" =>
    output.value = IF input.length = 0 THEN 0
                   ELSE RoundHalfUp(100 * input.presentCount, input.length)

\* C2: every percentage getReportStats returns (each top and low performer
\* entry, averageAttendance) and getStats.recentAttendance is an integer
\* between 0 and 100.
C2_PercentagesInRange ==
  /\ response.op = "getReportStats" =>
       /\ response.averageAttendance \in 0..100
       /\ \A m \in Range(response.topPerformers) \cup
                   Range(response.lowPerformers) : m.percentage \in 0..100
  /\ response.op = "getStats" => response.recentAttendance \in 0..100

\* A report, after a member was deleted, whose one member is at 50 per cent.
C2_Witness ==
  /\ response.op = "getReportStats"
  /\ nextMemberId > Len(members) + 1
  /\ response.averageAttendance = 50
  /\ \E m \in Range(response.lowPerformers) : m.percentage = 50

\* C7: getStats.recentAttendance is the rounded percentage of present or
\* replaced records among the records dated within the seven days up to
\* now, and 0 when there is none; records outside that window play no part.
C7_RecentAttendanceTrailingWindow ==
  response.op = "getStats" =>
    LET window  == {i \in 1..Len(attendance) :
                      /\ DateGte(attendance[i].date, OneWeekAgo(response.at))
                      /\ DateGte(response.at, attendance[i].date)}
        present == {i \in window : attendance[i].status \in
                                     {"present", "replaced"}}
    IN  response.recentAttendance =
          IF window = {} THEN 0
          ELSE RoundHalfUp(100 * Cardinality(present), Cardinality(window))

\* The sum of the percentages of a list of member statistics.
RECURSIVE PercentageSum(_)
PercentageSum(ms) ==
  IF ms = <<>> THEN 0 ELSE ms[1].percentage + PercentageSum(Tail(ms))

\* C3: averageAttendance is the arithmetic mean of the per-member
\* percentages, every member counting once, rounded to the nearest integer
\* (a half going up), and is 0 when there are no members.
C3_AverageIsMeanOfPercentages ==
  output.fn = "reportStats" =>
    output.stats.averageAttendance =
      IF input.memberStats = <<>> THEN 0
      ELSE RoundHalfUp(PercentageSum(input.memberStats),
                       Len(input.memberStats))

\* Four members whose mean, 52.5, is reported as 53.
C3_Witness ==
  /\ output.fn = "reportStats"
  /\ Len(input.memberStats) = 4
  /\ PercentageSum(input.memberStats) = 210
  /\ output.stats.averageAttendance = 53

\* The i-th largest percentage of a list of member statistics.
DescPercentage(ms, i) ==
  CHOOSE v \in {m.percentage : m \in Range(ms)} :
    /\ Cardinality({j \in 1..Len(ms) : ms[j].percentage > v}) < i
    /\ i <= Cardinality({j \in 1..Len(ms) : ms[j].percentage >= v})

Percentages(ms) == [i \in 1..Len(ms) |-> ms[i].percentage]

\* C4: with n members, topPerformers is the first min(3, n) entries of the
\* members by percentage descending and lowPerformers the last min(3, n)
\* entries in reversed order, worst first; percentages 90, 80, 70, 60, 50
\* give top 90, 80, 70 and low 50, 60, 70.
C4_TopAndLowPerformers ==
  output.fn = "reportStats" =>
    LET ms  == input.memberStats
        n   == Len(ms)
        top == output.stats.topPerformers
        low == output.stats.lowPerformers
    IN  /\ Len(top) = Min(3, n) /\ Len(low) = Min(3, n)
        /\ \A i \in 1..Min(3, n) :
             /\ top[i] \in Range(ms) /\ low[i] \in Range(ms)
             /\ top[i].percentage = DescPercentage(ms, i)
             /\ low[i].percentage = DescPercentage(ms, n + 1 - i)
        /\ \A i, j \in 1..Min(3, n) :
             i # j => top[i].name # top[j].name /\ low[i].name # low[j].name
        /\ (n = 5 /\ {m.percentage : m \in Range(ms)} = {50, 60, 70, 80, 90})
             => /\ Percentages(top) = <<90, 80, 70>>
                /\ Percentages(low) = <<50, 60, 70>>

\* The five percentages of the example, enumerated out of order.
C4_Witness ==
  /\ output.fn = "reportStats"
  /\ Percentages(input.memberStats) = <<70, 50, 90, 60, 80>>
  /\ Percentages(output.stats.topPerformers) = <<90, 80, 70>>
  /\ Percentages(output.stats.lowPerformers) = <<50, 60, 70>>

\* The place of a name in the enumeration.
EnumeratedAt(ms, name) == CHOOSE i \in 1..Len(ms) : ms[i].name = name

\* C5: the ranking is a stable sort on percentage only: it holds every
\* member once, by percentage descending, and members of equal percentage
\* stay in the order the member query enumerated them.
C5_RankingIsStable ==
  output.fn = "reportStats" =>
    LET ms     == input.memberStats
        sorted == output.sorted
    IN  /\ Len(sorted) = Len(ms)
        /\ \A i \in 1..Len(sorted) : sorted[i] \in Range(ms)
        /\ \A i, j \in 1..Len(sorted) :
             i < j =>
               /\ sorted[i].percentage >= sorted[j].percentage
               /\ sorted[i].percentage = sorted[j].percentage =>
                    EnumeratedAt(ms, sorted[i].name)
                      < EnumeratedAt(ms, sorted[j].name)

\* A tie between the first and the third member, a better member between.
C5_Witness ==
  /\ output.fn = "reportStats"
  /\ Percentages(input.memberStats) = <<60, 90, 60>>
  /\ output.sorted[2].name = RankNames[1]
  /\ output.sorted[3].name = RankNames[3]

\* Some member is in both lists.
InBothLists ==
  \E t \in Range(output.stats.topPerformers),
     l \in Range(output.stats.lowPerformers) : t.name = l.name

\* C6 as stated: a member is in both lists when the member count is at
\* most 5, or when the members share one percentage band.
C6_OverlapWhenFewBands ==
  output.fn = "reportStats" =>
    LET ms == input.memberStats
    IN  (Len(ms) >= 1 /\
          (Len(ms) <= 5
             \/ Cardinality({m.percentage : m \in Range(ms)}) = 1))
          => InBothLists

\* C6, amended: a member is in both lists exactly when there are between 1
\* and 5 members; with 6 or more the lists are disjoint, however few
\* percentage bands there are.
C6_OverlapExactlyUpToFive ==
  output.fn = "reportStats" =>
    (InBothLists <=> Len(input.memberStats) \in 1..5)

\* Six members in one percentage band, and no member in both lists.
C6_Witness ==
  /\ output.fn = "reportStats"
  /\ Len(input.memberStats) = 6
  /\ Cardinality({m.percentage : m \in Range(input.memberStats)}) = 1
  /\ ~InBothLists

\* The ids of the records kept, in the order kept.
Ids(kept) == [j \in 1..Len(kept) |-> kept[j].id]

\* kept is the subsequence of records made of the records whose id is in
\* want: the same records, in their original relative order.
IsSubsequenceOf(kept, records, want) ==
  /\ Len(kept) = Cardinality(want)
  /\ {kept[j].id : j \in 1..Len(kept)} = want
  /\ \A j \in 1..Len(kept) : kept[j] = records[kept[j].id]
  /\ \A j, k \in 1..Len(kept) : j < k => kept[j].id < kept[k].id

Filtered == output.fn \in {"page", "export"}

\* C8: with statusFilter = "present" and every other predicate
\* unconstrained, the Reports page filter and the export filter return
\* exactly the records whose status is present, in their original order.
C8_StatusFilterPresent ==
  LET f == input.filters
  IN  ( /\ Filtered /\ f.given
        /\ f.statusFilter = "present"
        /\ ~Truthy(f.dateFrom) /\ ~Truthy(f.dateTo)
        /\ f.storyFilter = "all" /\ f.memberFilter = "all"
        /\ f.eventFilter = "all" )
      => IsSubsequenceOf(output.kept, input.records,
           {i \in 1..Len(input.records) :
              input.records[i].status = "present"})

\* The export of a mixed collection: a present record, another record, a
\* present record; the two present records are kept in that order.
C8_Witness ==
  /\ output.fn = "export"
  /\ input.filters.statusFilter = "present"
  /\ ~Truthy(input.filters.dateFrom) /\ ~Truthy(input.filters.dateTo)
  /\ input.filters.storyFilter = "all" /\ input.filters.memberFilter = "all"
  /\ Len(input.records) = 3
  /\ input.records[2].status = "absent"
  /\ Ids(output.kept) = <<1, 3>>

\* Calendar order of two dates.
OnOrBefore(a, b) ==
  \/ a[1] < b[1]
  \/ (a[1] = b[1] /\ a[2] < b[2])
  \/ (a[1] = b[1] /\ a[2] = b[2] /\ a[3] <= b[3])

InDateRange(record, f) ==
  /\ Truthy(f.dateFrom) => OnOrBefore(f.dateFrom.date, record.date)
  /\ Truthy(f.dateTo) => OnOrBefore(record.date, f.dateTo.date)

\* C9: the date predicates are inclusive on calendar dates: a record passes
\* them exactly when dateFrom <= record.date <= dateTo; no record outside
\* the range is kept, and with the other predicates at "all" the records
\* kept are exactly those in the range.
C9_DatePredicatesInclusive ==
  LET f == input.filters
  IN  (Filtered /\ f.given) =>
        /\ \A r \in Range(output.kept) : InDateRange(r, f)
        /\ ( /\ f.statusFilter = "all" /\ f.storyFilter = "all"
             /\ f.memberFilter = "all" /\ f.eventFilter = "all" )
           => IsSubsequenceOf(output.kept, input.records,
                {i \in 1..Len(input.records) :
                   InDateRange(input.records[i], f)})

\* dateFrom = dateTo = 2024-01-10 on the page: the record of 2024-01-09 and
\* the record of 2024-02-01 are left out, the record of 2024-01-10 is kept.
C9_Witness ==
  /\ output.fn = "page"
  /\ input.filters.dateFrom = DateValue(<<2024, 1, 10>>)
  /\ input.filters.dateTo = DateValue(<<2024, 1, 10>>)
  /\ Len(input.records) = 3
  /\ input.records[1].date = <<2024, 1, 9>>
  /\ input.records[2].date = <<2024, 1, 10>>
  /\ input.records[3].date = <<2024, 2, 1>>
  /\ Ids(output.kept) = <<2>>

\* A predicate that is "all", empty or missing.
Unset(v) == v \in {"all", "", Undefined}

\* The same filters with every unset string predicate written as "all".
WithAll(f) ==
  [f EXCEPT
     !.given = TRUE,
     !.statusFilter = IF Unset(f.statusFilter) THEN "all" ELSE @,
     !.storyFilter = IF Unset(f.storyFilter) THEN "all" ELSE @,
     !.memberFilter = IF Unset(f.memberFilter) THEN "all" ELSE @]

\* C10: an export whose filters leave statusFilter, storyFilter or
\* memberFilter empty or absent selects the same records as the same
\* request with that predicate set to "all".
C10_UnsetMeansAll ==
  output.fn = "export" =>
    output.kept = ExportFilter(input.records, WithAll(input.filters))

\* A record satisfies the six predicates of a filter specification: the two
\* inclusive date bounds and the four exact matches, "all" and the empty
\* date meaning no constraint.
SatisfiesAllSix(record, f) ==
  /\ InDateRange(record, f)
  /\ f.statusFilter = "all" \/ record.status = f.statusFilter
  /\ f.storyFilter = "all" \/ record.storyId = f.storyFilter
  /\ f.memberFilter = "all" \/ record.memberId = f.memberFilter
  /\ f.eventFilter = "all" \/ record.eventType = f.eventFilter

\* C11: for a filter specification the Reports page can send, the export
\* keeps a record exactly when it satisfies all six predicates (eventFilter
\* included), so the exported records are the records the page lists, in
\* the same relative order.
C11_ExportKeepsWhatPageLists ==
  (output.fn = "export" /\ OnPage(input.filters)) =>
    IsSubsequenceOf(output.kept, input.records,
      {i \in 1..Len(input.records) :
         SatisfiesAllSix(input.records[i], input.filters)})

(***************************************************************************)
(* The relation joiner: storage.getAttendanceWithDetails.  Its four        *)
(* queries are separate statements, so the collections joined are four     *)
(* snapshots that need not agree: a key of an attendance row may name no   *)
(* row of the snapshot it is looked up in.                                 *)
(***************************************************************************)
\* The value of a relation whose lookup found nothing (JavaScript undefined).
Absent == [absent |-> TRUE]

\* A lookup that falls back on the first row when nothing matches.
FindOrFirst(collection, id) ==
  LET hits == {i \in 1..Len(collection) : collection[i].id = id}
  IN  IF hits # {}
      THEN collection[CHOOSE i \in hits : \A j \in hits : i <= j]
      ELSE IF collection # <<>> THEN collection[1] ELSE Absent

\* collection.find(x => x.id === id): the first row with that id, or
\* undefined.
Find(collection, id) ==
  LET hits == {i \in 1..Len(collection) : collection[i].id = id}
  IN  IF hits # {}
      THEN collection[CHOOSE i \in hits : \A j \in hits : i <= j]
      ELSE Absent

\* allAttendance.map(record => ({...record, member, story, role,
\* replacedMember}))
AttendanceWithDetails(allAttendance, allMembers, allStories, allRoles) ==
  [i \in 1..Len(allAttendance) |->
     LET record == allAttendance[i]
     IN  [id               |-> record.id,
          memberId         |-> record.memberId,
          storyId          |-> record.storyId,
          roleId           |-> record.roleId,
          replacedMemberId |-> record.replacedMemberId,
          member           |-> Find(allMembers, record.memberId),
          story            |-> Find(allStories, record.storyId),
          role             |-> Find(allRoles, record.roleId),
          replacedMember   |-> Find(allMembers, record.replacedMemberId)]]

\* Bound of the joiner model: the attendance rows joined.
MaxJoined == 2

\* The keys of an attendance row; "m9" and "s9" name rows that a snapshot
\* taken later no longer has (or never had).
JoinShapes ==
  [memberId         : {"m1", "m9"},
   storyId          : {Null, "s1", "s9"},
   roleId           : {Null, "r1"},
   replacedMemberId : {Null, "m2"}]

JoinRow(shape, id) ==
  [id |-> id, memberId |-> shape.memberId, storyId |-> shape.storyId,
   roleId |-> shape.roleId, replacedMemberId |-> shape.replacedMemberId]

Entity(id, name) == [id |-> id, name |-> name]

MemberSnapshots ==
  { <<>>, <<Entity("m1", "Asha")>>,
    <<Entity("m2", "Ravi"), Entity("m1", "Asha")>> }
StorySnapshots == { <<>>, <<Entity("s1", "Ramayan")>> }
RoleSnapshots == { <<>>, <<Entity("r1", "Character")>> }

JoinInit ==
  /\ members = <<>> /\ attendance = <<>> /\ nextMemberId = 1
  /\ response = NoResponse
  /\ notifications = <<>> /\ polls = <<>> /\ pollResponses = <<>>
  /\ users = <<>> /\ stories = <<>> /\ characters = <<>>
  /\ sessions = {} /\ inflight = Idle
  /\ \E n \in 0..MaxJoined : \E shape \in [1..n -> JoinShapes] :
       \E ms \in MemberSnapshots, ss \in StorySnapshots,
          rs \in RoleSnapshots :
         input = [fn |-> "join",
                  allAttendance |-> [i \in 1..n |-> JoinRow(shape[i], i)],
                  allMembers |-> ms, allStories |-> ss, allRoles |-> rs]
  /\ output = NoValue

\* GET /api/attendance (admin) -> storage.getAttendanceWithDetails
GetAttendanceWithDetails ==
  /\ input.fn = "join" /\ output.fn = "none"
  /\ output' = [fn |-> "join",
                joined |-> AttendanceWithDetails(input.allAttendance,
                             input.allMembers, input.allStories,
                             input.allRoles)]
  /\ UNCHANGED <<store, input>>

SpecJoin == JoinInit /\ [][GetAttendanceWithDetails]_vars

\* The relation the joined record must carry for key id: the row of the
\* collection with that id when there is one, nothing otherwise.
RelationFor(collection, id, relation) ==
  IF \E e \in Range(collection) : e.id = id
  THEN relation \in Range(collection) /\ relation.id = id
  ELSE relation = Absent

\* C12: getAttendanceWithDetails returns one joined record per attendance
\* record of the snapshot, in the same order, and a storyId, roleId,
\* memberId or replacedMemberId that matches no entity yields that relation
\* absent on the joined record, never an error.
C12_JoinKeepsEveryRecord ==
  output.fn # "none" =>
    /\ output.fn = "join"
    /\ Len(output.joined) = Len(input.allAttendance)
    /\ \A i \in 1..Len(output.joined) :
         LET j == output.joined[i]
             r == input.allAttendance[i]
         IN  /\ j.id = r.id /\ j.memberId = r.memberId
             /\ j.storyId = r.storyId /\ j.roleId = r.roleId
             /\ j.replacedMemberId = r.replacedMemberId
             /\ RelationFor(input.allMembers, r.memberId, j.member)
             /\ RelationFor(input.allStories, r.storyId, j.story)
             /\ RelationFor(input.allRoles, r.roleId, j.role)
             /\ RelationFor(input.allMembers, r.replacedMemberId,
                            j.replacedMember)

\* Two records joined against non-empty collections: the first has a story
\* and a member that match nothing, the second matches a member and a story.
C12_Witness ==
  /\ output.fn = "join"
  /\ Len(output.joined) = 2
  /\ input.allStories # <<>> /\ input.allMembers # <<>>
  /\ input.allAttendance[1].storyId = "s9"
  /\ input.allAttendance[1].memberId = "m9"
  /\ output.joined[1].story = Absent /\ output.joined[1].member = Absent
  /\ output.joined[2].story # Absent /\ output.joined[2].member # Absent

(***************************************************************************)
(* The export routes: POST /api/polls/export and POST /api/reports/export. *)
(* What a handler does to res is modelled as one reply record: whether     *)
(* anything was sent, the status, the headers set and the body written.    *)
(* A body is described by the values rendered into it (cell values, text   *)
(* lines, drawn figures), not by its bytes; generation timestamps, the     *)
(* per-response time column and the pixel layout are left out.             *)
(***************************************************************************)
\* An explicit answer to a format the handler does not know.
UnsupportedFormatReply ==
  [sent |-> TRUE, status |-> 400, headers |-> {},
   body |-> [kind |-> "json", message |-> "Unsupported format"]]

\* res untouched: the handler returned without sending anything.
NoReply ==
  [sent |-> FALSE, status |-> 0, headers |-> {}, body |-> [kind |-> "none"]]

\* res.status(status).json({ message })
JsonReply(status, message) ==
  [sent |-> TRUE, status |-> status, headers |-> {},
   body |-> [kind |-> "json", message |-> message]]

\* res.setHeader('Content-Type', ...); res.setHeader('Content-Disposition',
\* ...); then the body is sent or piped.
FileReply(contentType, filename, body) ==
  [sent |-> TRUE, status |-> 200,
   headers |-> {<<"Content-Type", contentType>>,
                <<"Content-Disposition", filename>>},
   body |-> body]

\* currentMember?.isAdmin of the caller: an admin, another member, or a
\* user with no member row.
Callers == {"admin", "member", Undefined}
IsAdmin(caller) == caller = "admin"

\* The format selector of a request body.
Formats == {"excel", "pdf", "image", "csv", Undefined}

\* v || fallback
OrElse(v, fallback) == IF v \in {Undefined, Null, ""} THEN fallback ELSE v

\* entity?.name || fallback
NameOr(entity, fallback) ==
  IF entity = Absent THEN fallback ELSE OrElse(entity.name, fallback)

\* record[name] of a JavaScript object: undefined for a property it lacks.
Property(record, name) ==
  IF name \in DOMAIN record THEN record[name] ELSE Undefined

\* The storage singleton is a DatabaseStorage, a class with methods only:
\* it has no db property.
StorageDb == Undefined

\* storage.db?.query?.pollResponses?.findMany?.({ where: { pollId } }) || []
FindManyResponses(storedResponses, pollId) ==
  IF StorageDb = Undefined THEN <<>>
  ELSE SelectSeq(storedResponses, LAMBDA r : r.pollId = pollId)

\* poll.options[selectedOption] || 'Unknown' (options is indexed from 0).
OptionOr(poll, selectedOption, fallback) ==
  IF selectedOption + 1 \in 1..Len(poll.options)
  THEN OrElse(poll.options[selectedOption + 1], fallback)
  ELSE fallback

\* The rows both the spreadsheet and the document list: member name and
\* option chosen, one per response.
PollRows(poll, responses, allMembers) ==
  [i \in 1..Len(responses) |->
     [member |-> NameOr(Find(allMembers, responses[i].memberId), "Unknown"),
      option |-> OptionOr(poll, responses[i].selectedOption, "Unknown")]]

\* The image's line and bar per option: count and Math.round((count /
\* responses.length) * 100), 0 without responses.
PollBars(poll, responses) ==
  [idx \in 1..Len(poll.options) |->
     LET count == Len(SelectSeq(responses,
                        LAMBDA r : r.selectedOption = idx - 1))
     IN  [option |-> poll.options[idx],
          count  |-> count,
          pct    |-> IF Len(responses) > 0
                     THEN PercentageOf[Len(responses)][count] ELSE 0]]

\* POST /api/polls/export, from the admin check to the last branch.
PollExportReply(caller, pollId, format, allPolls, stored, allMembers) ==
  IF ~IsAdmin(caller) THEN JsonReply(403, "Forbidden")
  ELSE
    LET poll      == Find(allPolls, pollId)
        responses == FindManyResponses(stored, pollId)
    IN  IF poll = Absent THEN JsonReply(404, "Poll not found")
        ELSE IF format = "excel"
        THEN FileReply("application/vnd.openxmlformats-officedocument.spreadsheetml.sheet",
               "attachment; filename=poll-results.xlsx",
               [kind |-> "xlsx", question |-> poll.question,
                total |-> Len(responses),
                rows |-> PollRows(poll, responses, allMembers)])
        ELSE IF format = "pdf"
        THEN FileReply("application/pdf",
               "attachment; filename=poll-results.pdf",
               [kind |-> "pdf", question |-> poll.question,
                total |-> Len(responses),
                rows |-> PollRows(poll,
                           SubSeq(responses, 1, Min(100, Len(responses))),
                           allMembers)])
        ELSE IF format = "image"
        THEN FileReply("image/jpeg",
               "attachment; filename=poll-results.jpg",
               [kind |-> "jpeg", question |-> poll.question,
                total |-> Len(responses),
                bars |-> PollBars(poll, responses)])
        ELSE NoReply

\* storage.getStories(): the active stories only.
GetStories(allStories) == SelectSeq(allStories, LAMBDA st : st.isActive)

\* new Date(date).toLocaleDateString() on a server whose zone is `zone`
\* minutes from UTC: the date string is read as UTC midnight and shown as
\* the local calendar day, month/day/year.
ToLocaleDateString(date, zone) ==
  LET local == DateString((DateParse(date) * 1440 + zone) \div 1440)
  IN  <<local[2], local[3], local[1]>>

\* status.toUpperCase()
ToUpperCase(status) ==
  CASE status = "present"  -> "PRESENT"
    [] status = "absent"   -> "ABSENT"
    [] status = "replaced" -> "REPLACED"
    [] OTHER               -> "LATE"

SheetHeader == <<"Date", "Member", "Story", "Role", "Status", "Replaced By">>

\* The rows pushed onto ws_data, one per filtered record.  record.role and
\* record.replacedBy are read from the attendance row itself.
SheetRows(filtered, allMembers, activeStories, zone) ==
  [i \in 1..Len(filtered) |->
     LET record == filtered[i]
     IN  << ToLocaleDateString(record.date, zone),
            NameOr(Find(allMembers, record.memberId), ""),
            NameOr(Find(activeStories, record.storyId), ""),
            OrElse(Property(record, "role"), ""),
            record.status,
            OrElse(Property(record, "replacedBy"), "") >>]

\* The text lines of the document, of the first 100 records.
DocumentLines(filtered, allMembers, activeStories, zone) ==
  [i \in 1..Min(100, Len(filtered)) |->
     LET record == filtered[i]
     IN  << ToLocaleDateString(record.date, zone),
            NameOr(Find(allMembers, record.memberId), "Unknown"),
            NameOr(Find(activeStories, record.storyId), "Unknown"),
            ToUpperCase(record.status) >>]

\* The table rows of the image: a row is drawn while y <= 1500, y starting
\* at 280 and growing by 25 a row.
ImageRows(filtered, allMembers, activeStories, zone) ==
  [i \in 1..Min((1500 - 280) \div 25 + 1, Len(filtered)) |->
     LET record == filtered[i]
     IN  << ToLocaleDateString(record.date, zone),
            NameOr(Find(allMembers, record.memberId), "Unknown"),
            NameOr(Find(activeStories, record.storyId), "-"),
            OrElse(Property(record, "role"), "-"),
            record.status,
            OrElse(Property(record, "replacedBy"), "-") >>]

CountStatus(filtered, status) ==
  Len(SelectSeq(filtered, LAMBDA r : r.status = status))

\* POST /api/reports/export, from the admin check to the last branch.
ReportExportReply(caller, format, filters, rows, allMembers, all, zone) ==
  IF ~IsAdmin(caller) THEN JsonReply(403, "Forbidden")
  ELSE
    LET activeStories == GetStories(all)
        filtered      == ExportFilter(rows, filters)
    IN  IF format = "excel"
        THEN FileReply("application/vnd.openxmlformats-officedocument.spreadsheetml.sheet",
               "attachment; filename=attendance-report.xlsx",
               [kind |-> "xlsx",
                ws_data |-> <<SheetHeader>> \o
                  SheetRows(filtered, allMembers, activeStories, zone)])
        ELSE IF format = "pdf"
        THEN FileReply("application/pdf",
               "attachment; filename=attendance-report.pdf",
               [kind |-> "pdf",
                lines |-> DocumentLines(filtered, allMembers, activeStories,
                                        zone)])
        ELSE IF format = "image"
        THEN FileReply("image/jpeg",
               "attachment; filename=attendance-report.jpg",
               [kind |-> "jpeg",
                total    |-> Len(filtered),
                present  |-> CountStatus(filtered, "present"),
                absent   |-> CountStatus(filtered, "absent"),
                replaced |-> CountStatus(filtered, "replaced"),
                rows |-> ImageRows(filtered, allMembers, activeStories,
                                   zone)])
        ELSE NoReply

\* Bounds of the export model: the attendance rows stored, and the poll
\* responses stored.
MaxExported == 2
MaxTallied == 4

\* The server's zone, in minutes from UTC.
ServerZones == {0, -300}

ExportMembers == <<Entity("m1", "Asha"), Entity("m2", "Ravi")>>
ExportRoles == <<Entity("r1", "Character")>>
\* The second story is soft-deleted.
ExportStories ==
  << [id |-> "s1", name |-> "Ramayan", isActive |-> TRUE],
     [id |-> "s2", name |-> "Mahabharat", isActive |-> FALSE] >>

\* Attendance rows as the table holds them.
ExportShapes ==
  { [date |-> <<2024, 1, 10>>, status |-> "present", storyId |-> "s1",
     memberId |-> "m1", eventType |-> "JJ", roleId |-> "r1",
     replacedMemberId |-> Null],
    [date |-> <<2024, 3, 1>>, status |-> "replaced", storyId |-> "s2",
     memberId |-> "m2", eventType |-> Null, roleId |-> Null,
     replacedMemberId |-> "m1"],
    [date |-> <<2024, 1, 1>>, status |-> "absent", storyId |-> Null,
     memberId |-> "m1", eventType |-> Null, roleId |-> Null,
     replacedMemberId |-> Null] }

ExportRow(shape, id) == [r \in {"id"} |-> id] @@ shape

ExportFilters ==
  { NoFilters,
    [given |-> TRUE, dateFrom |-> DateEmpty, dateTo |-> DateEmpty,
     statusFilter |-> "all", storyFilter |-> "all", memberFilter |-> "all",
     eventFilter |-> "all"],
    [given |-> TRUE, dateFrom |-> DateValue(<<2024, 1, 10>>),
     dateTo |-> DateEmpty, statusFilter |-> "all", storyFilter |-> "all",
     memberFilter |-> "all", eventFilter |-> "all"] }

ExportPolls ==
  << [id |-> "p1", question |-> "Which day?", options |-> <<"A", "B">>],
     [id |-> "p2", question |-> "Which show?",
      options |-> <<"Ramayan", "Mahabharat", "Other">>] >>

\* Poll response rows as the table holds them.
ResponseShapes ==
  { [pollId |-> "p1", memberId |-> "m1", selectedOption |-> 0],
    [pollId |-> "p1", memberId |-> "m2", selectedOption |-> 1],
    [pollId |-> "p2", memberId |-> "m1", selectedOption |-> 2] }

\* One export request and the tables it will read.
ExportInit ==
  /\ members = <<>> /\ attendance = <<>> /\ nextMemberId = 1
  /\ response = NoResponse
  /\ notifications = <<>> /\ polls = <<>> /\ pollResponses = <<>>
  /\ users = <<>> /\ stories = <<>> /\ characters = <<>>
  /\ sessions = {} /\ inflight = Idle
  /\ \E caller \in Callers, format \in Formats :
       \/ \E n \in 0..MaxTallied : \E shape \in [1..n -> ResponseShapes] :
            \E pollId \in {"p1", "p9"} :
              input = [fn |-> "pollExport", caller |-> caller,
                       format |-> format, pollId |-> pollId,
                       polls |-> ExportPolls, pollResponses |-> shape,
                       allMembers |-> ExportMembers]
       \/ \E n \in 0..MaxExported : \E shape \in [1..n -> ExportShapes] :
            \E filters \in ExportFilters, zone \in ServerZones :
              input = [fn |-> "reportExport", caller |-> caller,
                       format |-> format, filters |-> filters,
                       allAttendance |->
                         [i \in 1..n |-> ExportRow(shape[i], i)],
                       allMembers |-> ExportMembers,
                       stories |-> ExportStories, roles |-> ExportRoles,
                       zone |-> zone]
  /\ output = NoValue

\* POST /api/polls/export
PollExport ==
  /\ input.fn = "pollExport" /\ output.fn = "none"
  /\ output' = [fn |-> "pollExport",
                res |-> PollExportReply(input.caller, input.pollId,
                          input.format, input.polls, input.pollResponses,
                          input.allMembers)]
  /\ UNCHANGED <<store, input>>

\* POST /api/reports/export
ReportExport ==
  /\ input.fn = "reportExport" /\ output.fn = "none"
  /\ output' = [fn |-> "reportExport",
                res |-> ReportExportReply(input.caller, input.format,
                          input.filters, input.allAttendance,
                          input.allMembers, input.stories, input.zone)]
  /\ UNCHANGED <<store, input>>

ExportNext == PollExport \/ ReportExport

SpecExport == ExportInit /\ [][ExportNext]_vars

\* The name of the entity of a collection with key id, empty when the key
\* names none.
NameIn(collection, id) ==
  IF \E e \in Range(collection) : e.id = id
  THEN (CHOOSE e \in Range(collection) : e.id = id).name
  ELSE ""

\* C13: reading the attendance sheet back gives one data row per filtered
\* record, in the filtered order, and the row's Date, Member, Story, Role,
\* Status and Replaced By are the record's date (as a calendar day, in
\* whatever notation), member name, story name, role, status and replaced
\* member.
C13_SheetRoundTrip ==
  (output.fn = "reportExport" /\ output.res.body.kind = "xlsx") =>
    LET filtered == ExportFilter(input.allAttendance, input.filters)
        rows     == Tail(output.res.body.ws_data)
    IN  /\ Len(rows) = Len(filtered)
        /\ \A i \in 1..Len(rows) :
             LET r == filtered[i]
             IN  /\ rows[i][1] = <<r.date[2], r.date[3], r.date[1]>>
                 /\ rows[i][2] = NameIn(input.allMembers, r.memberId)
                 /\ rows[i][3] = NameIn(input.stories, r.storyId)
                 /\ rows[i][4] = NameIn(input.roles, r.roleId)
                 /\ rows[i][5] = r.status
                 /\ rows[i][6] = NameIn(input.allMembers, r.replacedMemberId)

\* The responses stored for the poll of a poll export request.
StoredForPoll ==
  SelectSeq(input.pollResponses, LAMBDA r : r.pollId = input.pollId)

\* C14: in a poll export the total is the number of responses stored for
\* the poll, the count of option i the number of them with selectedOption
\* = i, and the percentage of option i round(100 * count / total), 0
\* without responses; three responses for option 0 and one for option 1
\* give counts 3, 1 and percentages 75, 25.
C14_PollTally ==
  (output.fn = "pollExport" /\ output.res.body.kind \in {"xlsx", "pdf", "jpeg"})
    =>
    LET total == Len(StoredForPoll)
        body  == output.res.body
    IN  /\ body.total = total
        /\ body.kind = "jpeg" =>
             \A idx \in 1..Len(body.bars) :
               LET count == Cardinality({k \in 1..total :
                              StoredForPoll[k].selectedOption = idx - 1})
               IN  /\ body.bars[idx].count = count
                   /\ body.bars[idx].pct =
                        IF total = 0 THEN 0
                        ELSE RoundHalfUp(100 * count, total)

\* The bodies a renderer produces.
Rendered == {"xlsx", "pdf", "jpeg"}

\* A poll export request that names no stored poll has been handled.
UnknownPollHandled ==
  /\ output.fn = "pollExport"
  /\ \A i \in 1..Len(input.polls) : input.polls[i].id # input.pollId

\* Nothing of an export was written: no header, no rendered body.
NothingRendered ==
  output.res.headers = {} /\ output.res.body.kind \notin Rendered

\* C15 as stated: every poll export request whose pollId matches no stored
\* poll is answered 404, and no export header or rendered body is written.
C15_UnknownPollIsNotFound ==
  UnknownPollHandled =>
    /\ output.res.sent /\ output.res.status = 404
    /\ NothingRendered

\* C15, amended: a poll export request whose pollId matches no stored poll
\* is answered 404 when an admin sends it and 403 (before the lookup)
\* otherwise; in both cases no export header and no spreadsheet, document
\* or image is written.
C15_UnknownPollNeverRendered ==
  UnknownPollHandled =>
    /\ output.res.sent
    /\ output.res.status = IF input.caller = "admin" THEN 404 ELSE 403
    /\ NothingRendered

\* An admin asks for the spreadsheet of a poll that does not exist.
C15_Witness ==
  /\ UnknownPollHandled
  /\ input.caller = "admin" /\ input.format = "excel"
  /\ output.res.status = 404 /\ output.res.body.kind = "json"

\* An admin's export request with a format other than the three has been
\* handled.
UnknownFormatHandled ==
  /\ output.fn \in {"pollExport", "reportExport"}
  /\ input.caller = "admin"
  /\ input.format \notin {"excel", "pdf", "image"}

\* Nothing was written to res: nothing sent, no header, no body.
Unanswered ==
  /\ ~output.res.sent
  /\ output.res.headers = {}
  /\ output.res.body.kind = "none"

\* C16 as stated: an admin's report or poll export request whose format is
\* none of excel, pdf, image gets no reply at all and no renderer runs.
C16_UnknownFormatNoReply ==
  UnknownFormatHandled => Unanswered

\* C16, amended: such a request gets no reply and no renderer runs, except
\* that a poll export naming no stored poll is answered 404 before the
\* format is looked at.
C16_UnknownFormatNoReplyUnlessNotFound ==
  UnknownFormatHandled =>
    IF output.fn = "pollExport" /\ UnknownPollHandled
    THEN output.res.status = 404 /\ NothingRendered
    ELSE Unanswered

\* Both routes leave a "csv" request of an admin unanswered.
C16_Witness ==
  /\ UnknownFormatHandled
  /\ input.format = "csv"
  /\ ~output.res.sent
  /\ output.fn = "pollExport" => input.pollId = "p1"
  /\ output.fn = "reportExport" => Len(input.allAttendance) = 2

\* C17: in every reachable state each stored attendance record has a status
\* that is one of present, absent, replaced, whichever of the two routes
\* stored it.
C17_StatusIsOneOfThree ==
  \A i \in 1..Len(attendance) :
    attendance[i].status \in {"present", "absent", "replaced"}

(***************************************************************************)
(* Notifications, polls and poll responses.  Ids are gen_random_uuid()     *)
(* values, modelled by the row's place in its table (no route deletes a    *)
(* row of these tables: a notification is deactivated, not removed).       *)
(* A request by a caller who is not an admin is answered 403 and leaves    *)
(* the tables alone.                                                       *)
(***************************************************************************)
\* Bounds of the poll model: rows per table.
MaxNotifications == 2
MaxPolls == 2
MaxResponses == 2

NotificationTypes == {"announcement", "poll"}

\* pollOptions of a request body; a body without it behaves like the empty
\* list (the length test fails either way).
OptionLists == { <<>>, <<"A", "B">>, <<"A", " ">>, <<"A", "B", "C">> }

\* selectedOption of a request body: any integer fits the column.
SelectedOptions == {-1, 0, 1, 2}

\* o.trim() is the empty string.
IsBlank(o) == o \in {"", " "}

\* POST /api/notifications: the notification is stored and, for type
\* "poll" with at least two pollOptions, a poll with the non-blank options.
CreateNotification(caller, type, pollOptions) ==
  LET id       == Len(notifications) + 1
      withPoll == type = "poll" /\ Len(pollOptions) >= 2
  IN  /\ IsAdmin(caller)
      /\ Len(notifications) < MaxNotifications
      /\ withPoll => Len(polls) < MaxPolls
      /\ notifications' = Append(notifications, [id |-> id, type |-> type])
      /\ polls' =
           IF withPoll
           THEN Append(polls,
                  [id |-> Len(polls) + 1,
                   options |-> SelectSeq(pollOptions, LAMBDA o : ~IsBlank(o)),
                   notificationId |-> id])
           ELSE polls
      /\ UNCHANGED <<members, attendance, nextMemberId, response, input,
                     output, accountStore, pollResponses>>

\* POST /api/polls -> storage.createPoll; the insert fails unless
\* notification_id is null (written 0 here) or names a notification.
CreatePoll(caller, options, notificationId) ==
  /\ IsAdmin(caller)
  /\ Len(polls) < MaxPolls
  /\ notificationId = 0 \/ notificationId \in 1..Len(notifications)
  /\ polls' = Append(polls,
       [id |-> Len(polls) + 1, options |-> options,
        notificationId |-> notificationId])
  /\ UNCHANGED <<members, attendance, nextMemberId, response, input,
                 output, accountStore, notifications, pollResponses>>

\* POST /api/polls/:pollId/respond -> storage.createPollResponse for the
\* member of the session; the insert fails unless poll_id names a poll.
Respond(memberId, pollId, selectedOption) ==
  /\ \E i \in 1..Len(members) : members[i].id = memberId
  /\ Len(pollResponses) < MaxResponses
  /\ pollId \in 1..Len(polls)
  /\ pollResponses' = Append(pollResponses,
       [pollId |-> pollId, memberId |-> memberId,
        selectedOption |-> selectedOption])
  /\ UNCHANGED <<members, attendance, nextMemberId, response, input,
                 output, accountStore, notifications, polls>>

\* The tables empty, two members stored.
PollsInit ==
  /\ members = <<[id |-> 1, name |-> "Admin User"],
                 [id |-> 2, name |-> "Asha"]>>
  /\ attendance = <<>>
  /\ nextMemberId = 3
  /\ response = NoResponse
  /\ input = NoValue
  /\ output = NoValue
  /\ notifications = <<>> /\ polls = <<>> /\ pollResponses = <<>>
  /\ users = <<>> /\ stories = <<>> /\ characters = <<>>
  /\ sessions = {} /\ inflight = Idle

PollsNext ==
  \/ \E caller \in Callers, type \in NotificationTypes,
        pollOptions \in OptionLists :
          CreateNotification(caller, type, pollOptions)
  \/ \E caller \in Callers, options \in OptionLists,
        notificationId \in 0..MaxNotifications :
          CreatePoll(caller, options, notificationId)
  \/ \E memberId \in 1..2, pollId \in 1..(MaxPolls + 1),
        selectedOption \in SelectedOptions :
          Respond(memberId, pollId, selectedOption)

SpecPolls == PollsInit /\ [][PollsNext]_vars

\* C18: every stored poll response names a stored poll by its pollId, and
\* its selectedOption is an index into that poll's options list
\* (0 <= selectedOption < number of options); a poll's options never
\* change once stored.
C18_SelectedOptionIsValidIndex ==
  \A i \in 1..Len(pollResponses) :
    \E k \in 1..Len(polls) :
      /\ polls[k].id = pollResponses[i].pollId
      /\ pollResponses[i].selectedOption \in 0..(Len(polls[k].options) - 1)

\* C19: for every poll, each member has at most one stored response, after
\* any sequence of respond requests.
C19_OneResponsePerMember ==
  \A i, j \in 1..Len(pollResponses) :
    ( /\ pollResponses[i].pollId = pollResponses[j].pollId
      /\ pollResponses[i].memberId = pollResponses[j].memberId ) => i = j

\* C20: no two stored polls carry the same notificationId.
C20_OnePollPerNotification ==
  \A i, j \in 1..Len(polls) :
    ( /\ polls[i].notificationId # 0
      /\ polls[i].notificationId = polls[j].notificationId ) => i = j

(***************************************************************************)
(* Startup seeding and the stories.  seedSampleData runs to its end before *)
(* the routes are registered, so a start of the server is one step.  The   *)
(* tables it reads and writes are passed as a record db.                   *)
(***************************************************************************)
\* The stories seeded (two of the six, with two and one of their
\* characters).
storiesDataToSeed ==
  << [name |-> "Lumpy & Pooh", characters |-> <<"Tiger", "Lumpy">>],
     [name |-> "Dalo Tarwadi", characters |-> <<"Dalo">>] >>

SampleAdminUser == [id |-> "sample-admin-user", email |-> "admin@gnc.org"]

\* storage.upsertUser: insert, or update the row with the same id; the
\* statement fails when another row holds the email.
UpsertUser(db, user) ==
  IF \E i \in 1..Len(db.users) :
       db.users[i].id # user.id /\ db.users[i].email = user.email
  THEN [db EXCEPT !.failed = TRUE]
  ELSE IF \E i \in 1..Len(db.users) : db.users[i].id = user.id
  THEN [db EXCEPT !.users =
          [i \in 1..Len(db.users) |->
             IF db.users[i].id = user.id THEN user ELSE db.users[i]]]
  ELSE [db EXCEPT !.users = Append(db.users, user)]

\* The members insert of storage.createMember: fails on a stored mht_id and
\* on a user_id that names no user.
InsertMember(db, member) ==
  IF \/ \E i \in 1..Len(db.members) : db.members[i].mhtId = member.mhtId
     \/ \A u \in 1..Len(db.users) : db.users[u].id # member.userId
  THEN [db EXCEPT !.failed = TRUE]
  ELSE [db EXCEPT
          !.members = Append(db.members,
                        [id |-> db.nextMemberId] @@ member),
          !.nextMemberId = db.nextMemberId + 1]

\* The first part of seedSampleData: the default admin, unless a member
\* with MHT ID MHT001 is stored.
SeedAdmin(db) ==
  IF \E i \in 1..Len(db.members) : db.members[i].mhtId = "MHT001"
  THEN db
  ELSE LET withUser == UpsertUser(db, SampleAdminUser)
       IN  IF withUser.failed THEN withUser
           ELSE InsertMember(withUser,
                  [mhtId |-> "MHT001", name |-> "Admin User",
                   email |-> "admin@gnc.org", mobile |-> "9876543210",
                   isAdmin |-> TRUE, userId |-> SampleAdminUser.id])

\* A seeding whose stories table has no unique name.
SeedStoryNoUnique(db, existingStories, storyItem) ==
  IF \E i \in 1..Len(existingStories) :
       existingStories[i].name = storyItem.name
  THEN db
  ELSE LET id == Len(db.stories) + 1
       IN  [db EXCEPT
              !.stories = Append(db.stories,
                [id |-> id, name |-> storyItem.name, isActive |-> TRUE]),
              !.characters = db.characters \o
                [k \in 1..Len(storyItem.characters) |->
                   [storyId |-> id, name |-> storyItem.characters[k]]]]

\* The body of the seeding loop for one story: nothing when
\* existingStories has the name; otherwise storage.createStory, which
\* fails when a stored story (active or not) has the name, and then a
\* character row per name.
SeedStory(db, existingStories, storyItem) ==
  IF \E i \in 1..Len(existingStories) :
       existingStories[i].name = storyItem.name
  THEN db
  ELSE IF \E i \in 1..Len(db.stories) : db.stories[i].name = storyItem.name
  THEN [db EXCEPT !.failed = TRUE]
  ELSE LET id == Len(db.stories) + 1
       IN  [db EXCEPT
              !.stories = Append(db.stories,
                [id |-> id, name |-> storyItem.name, isActive |-> TRUE]),
              !.characters = db.characters \o
                [k \in 1..Len(storyItem.characters) |->
                   [storyId |-> id, name |-> storyItem.characters[k]]]]

\* The seeding loop from story k on; an exception ends it (the catch of
\* seedSampleData is outside the loop).
RECURSIVE SeedStories(_, _, _)
SeedStories(db, existingStories, k) ==
  IF db.failed \/ k > Len(storiesDataToSeed) THEN db
  ELSE SeedStories(SeedStory(db, existingStories, storiesDataToSeed[k]),
                   existingStories, k + 1)

\* seedSampleData; existingStories is read once, after the admin part.
SeedSampleData(db) ==
  LET withAdmin == SeedAdmin(db)
  IN  IF withAdmin.failed THEN withAdmin
      ELSE SeedStories(withAdmin, GetStories(withAdmin.stories), 1)

EmptyDb ==
  [members |-> <<>>, users |-> <<>>, stories |-> <<>>, characters |-> <<>>,
   nextMemberId |-> 1, failed |-> FALSE]

\* Bound of the stories model: the attendance rows stored.
MaxStoryAttendance == 2

\* The server start: seedSampleData on the tables as they are.
Restart ==
  LET db == SeedSampleData(
              [members |-> members, users |-> users, stories |-> stories,
               characters |-> characters, nextMemberId |-> nextMemberId,
               failed |-> FALSE])
  IN  /\ members' = db.members /\ users' = db.users
      /\ stories' = db.stories /\ characters' = db.characters
      /\ nextMemberId' = db.nextMemberId
      /\ response' = [op |-> "restart", failed |-> db.failed]
      /\ UNCHANGED <<attendance, input, output, pollStore, sessions,
                     inflight>>

\* A story removed with its characters (characters.story_id cascades).
HardDeleteStory(caller, id) ==
  /\ IsAdmin(caller)
  /\ \E i \in 1..Len(stories) : stories[i].id = id /\ stories[i].isActive
  /\ stories' = SelectSeq(stories, LAMBDA st : st.id # id)
  /\ characters' = SelectSeq(characters, LAMBDA c : c.storyId # id)
  /\ response' = [op |-> "deleteStory", id |-> id, status |-> 204]
  /\ UNCHANGED <<members, attendance, nextMemberId, input, output,
                 pollStore, users, sessions, inflight>>

\* DELETE /api/stories/:id by an admin -> storage.deleteStory.
DeleteStory(caller, id) ==
  /\ IsAdmin(caller)
  /\ \E i \in 1..Len(stories) : stories[i].id = id /\ stories[i].isActive
  /\ stories' = [i \in 1..Len(stories) |->
                   IF stories[i].id = id
                   THEN [stories[i] EXCEPT !.isActive = FALSE]
                   ELSE stories[i]]
  /\ response' = [op |-> "deleteStory", id |-> id, status |-> 204]
  /\ UNCHANGED <<members, attendance, nextMemberId, input, output,
                 pollStore, users, characters, sessions, inflight>>

\* POST /api/attendance with a story: the insert fails unless story_id is
\* null or names a story (active or not).  The rows of this model share
\* one date, so the date order of the queries is the insertion order.
CreateStoryAttendance(memberId, storyId, status) ==
  /\ Len(attendance) < MaxStoryAttendance
  /\ \E i \in 1..Len(members) : members[i].id = memberId
  /\ storyId = 0 \/ \E i \in 1..Len(stories) : stories[i].id = storyId
  /\ attendance' = Append(attendance,
       [id |-> Len(attendance) + 1, memberId |-> memberId,
        date |-> <<2024, 1, 10>>, status |-> status, storyId |-> storyId,
        roleId |-> 0, replacedMemberId |-> 0])
  /\ response' = NoResponse
  /\ UNCHANGED <<members, nextMemberId, input, output, pollStore,
                 accountStore>>

\* GET /api/stories
ListStories ==
  /\ response' = [op |-> "getStories", stories |-> GetStories(stories)]
  /\ UNCHANGED <<members, attendance, nextMemberId, input, output,
                 pollStore, accountStore>>

\* GET /api/attendance/all by an admin -> getAttendanceWithDetails (no
\* role is stored in this model).
ListAttendance(caller) ==
  /\ IsAdmin(caller)
  /\ response' = [op |-> "attendanceAll",
                  joined |-> AttendanceWithDetails(attendance, members,
                                                   stories, <<>>)]
  /\ UNCHANGED <<members, attendance, nextMemberId, input, output,
                 pollStore, accountStore>>

\* The store after the first start of the server.
StoriesInit ==
  LET db == SeedSampleData(EmptyDb)
  IN  /\ members = db.members /\ users = db.users
      /\ stories = db.stories /\ characters = db.characters
      /\ nextMemberId = db.nextMemberId
      /\ attendance = <<>>
      /\ response = NoResponse
      /\ input = NoValue /\ output = NoValue
      /\ notifications = <<>> /\ polls = <<>> /\ pollResponses = <<>>
      /\ sessions = {} /\ inflight = Idle

StoriesNext ==
  \/ Restart
  \/ \E caller \in Callers, id \in 1..Len(storiesDataToSeed) :
       DeleteStory(caller, id)
  \/ \E storyId \in 0..Len(storiesDataToSeed),
        status \in {"present", "absent"} :
          CreateStoryAttendance(1, storyId, status)
  \/ ListStories
  \/ \E caller \in Callers : ListAttendance(caller)

SpecStories == StoriesInit /\ [][StoriesNext]_vars

\* C21: deleting a story only sets isActive = false and removes no story,
\* character or attendance row; afterwards GET /api/stories does not list
\* it, and every attendance record that references a story still has that
\* story in the joined view.
C21_SoftDelete ==
  [][ /\ response'.op = "deleteStory" =>
           /\ Len(stories') = Len(stories)
           /\ \A i \in 1..Len(stories) :
                 stories'[i] =
                   IF stories[i].id = response'.id
                   THEN [stories[i] EXCEPT !.isActive = FALSE]
                   ELSE stories[i]
           /\ \E i \in 1..Len(stories) : stories[i].id = response'.id
           /\ characters' = characters
           /\ attendance' = attendance
      /\ response'.op = "getStories" =>
           \A i \in 1..Len(stories) :
             ~stories[i].isActive =>
               \A k \in 1..Len(response'.stories) :
                 response'.stories[k].id # stories[i].id
      /\ response'.op = "attendanceAll" =>
           /\ Len(response'.joined) = Len(attendance)
           /\ \A k \in 1..Len(attendance) :
                 attendance[k].storyId # 0 =>
                   /\ response'.joined[k].story # Absent
                   /\ response'.joined[k].story.id = attendance[k].storyId
    ]_vars

\* The joined view shows a record whose story has been soft-deleted.
C21_Witness ==
  /\ response.op = "attendanceAll"
  /\ \E k \in 1..Len(response.joined) :
       /\ response.joined[k].storyId # 0
       /\ response.joined[k].story # Absent
       /\ ~response.joined[k].story.isActive

\* C22: deleting a member leaves the member's attendance records stored.
C22_DeleteKeepsAttendance ==
  [][ \A i \in 1..Len(members) :
        DeleteMember(members[i].id) => attendance' = attendance ]_vars

\* C27: every stored poll has at least two options and none of them is
\* blank, however the poll was created.
C27_PollHasTwoOptions ==
  \A i \in 1..Len(polls) :
    /\ Len(polls[i].options) >= 2
    /\ \A k \in 1..Len(polls[i].options) : ~IsBlank(polls[i].options[k])

\* The default admin, and each seed story with each of its characters, is
\* stored exactly once.
SeededOnce ==
  /\ Cardinality({i \in 1..Len(members) : members[i].mhtId = "MHT001"}) = 1
  /\ Cardinality({i \in 1..Len(users) :
                    users[i].email = "admin@gnc.org"}) = 1
  /\ \A s \in 1..Len(storiesDataToSeed) :
       LET named == {i \in 1..Len(stories) :
                      stories[i].name = storiesDataToSeed[s].name}
       IN  /\ Cardinality(named) = 1
           /\ \A c \in 1..Len(storiesDataToSeed[s].characters) :
                 Cardinality({k \in 1..Len(characters) :
                    /\ stories[characters[k].storyId].name =
                         storiesDataToSeed[s].name
                    /\ characters[k].name =
                         storiesDataToSeed[s].characters[c]}) = 1

\* C30: seeding a store that has been seeded creates no member, user,
\* story or character, so the default admin and each seed story with its
\* characters exist exactly once after any number of starts, also when a
\* seed story has been soft-deleted in between.
C30_SeedingIdempotent ==
  /\ []SeededOnce
  /\ [][ response'.op = "restart" =>
           /\ members' = members /\ users' = users
           /\ stories' = stories /\ characters' = characters ]_vars

\* The server has started again after a seed story was soft-deleted.
C30_Witness ==
  /\ response.op = "restart"
  /\ \E i \in 1..Len(stories) : ~stories[i].isActive

(***************************************************************************)
(* Accounts: login, the member routes and the member import.  A caller is  *)
(* a session [userId, memberId] made by the login; the member rows carry   *)
(* id, mhtId, name, email, mobile, isAdmin and userId (birthday and gDay   *)
(* take no part in any decision and are left out).  A handler that awaits  *)
(* between two writes is split at the await; inflight holds, per request   *)
(* slot, what the suspended handler goes on with.                          *)
(***************************************************************************)
\* Bounds of the accounts model: the member rows and the users rows.
MaxAccounts == 2
MaxUsers == 3

\* Bound on the member ids handed out.
MaxMemberIds == 3

\* gen_random_uuid() of the users table, by the number of rows stored.
GeneratedIds == <<"u1", "u2", "u3", "u4", "u5", "u6">>

\* The requests that can be suspended at one time.
Slots == {"a", "b"}

\* !v of a string, null or undefined.
IsFalsy(v) == v \in {Undefined, Null, ""}

\* The tables the storage methods work on, as they are now.
Db ==
  [members |-> members, users |-> users, stories |-> stories,
   characters |-> characters, nextMemberId |-> nextMemberId,
   failed |-> FALSE]

\* db.insert(users).values({email, ...}): a fresh id; fails when a row
\* holds the (non-null) email.
InsertUser(db, email) ==
  IF ~IsFalsy(email)
       /\ \E i \in 1..Len(db.users) : db.users[i].email = email
  THEN [db EXCEPT !.failed = TRUE]
  ELSE [db EXCEPT !.users =
          Append(db.users,
            [id |-> GeneratedIds[Len(db.users)],
             email |-> IF email = Undefined THEN Null ELSE email])]

\* The row after set(patch): the fields of the patch replace the row's.
ApplyPatch(m, patch) ==
  [f \in DOMAIN m |-> IF f \in DOMAIN patch THEN patch[f] ELSE m[f]]

\* An update that does not check the unique mht_id.
UpdateMemberNoUnique(db, id, patch) ==
  LET hits == {i \in 1..Len(db.members) : db.members[i].id = id}
  IN  IF hits = {} THEN db
      ELSE LET i == CHOOSE i \in hits : TRUE
               new == ApplyPatch(db.members[i], patch)
           IN  [db EXCEPT !.members[i] = new]

\* storage.updateMember: one UPDATE; it fails on a null mht_id or name, on
\* an mht_id another row holds, and on a user_id that names no user.
UpdateMember(db, id, patch) ==
  LET hits == {i \in 1..Len(db.members) : db.members[i].id = id}
  IN  IF hits = {} THEN db
      ELSE LET i == CHOOSE i \in hits : TRUE
               new == ApplyPatch(db.members[i], patch)
           IN  IF \/ new.mhtId = Null \/ new.name = Null
                  \/ \E j \in 1..Len(db.members) :
                       j # i /\ db.members[j].mhtId = new.mhtId
                  \/ /\ new.userId # Null
                     /\ \A u \in 1..Len(db.users) :
                          db.users[u].id # new.userId
               THEN [db EXCEPT !.failed = TRUE]
               ELSE [db EXCEPT !.members[i] = new]

\* storage.getMemberByUserId: the first row of an unordered SELECT, so any
\* of the rows with the user_id; Absent when there is none.
GetMemberByUserId(allMembers, userId) ==
  LET hits == {allMembers[i] : i \in {k \in 1..Len(allMembers) :
                                        allMembers[k].userId = userId}}
  IN  IF hits = {} THEN {Absent} ELSE hits

\* currentMember?.isAdmin
CurrentIsAdmin(currentMember) ==
  currentMember # Absent /\ currentMember.isAdmin

\* What a handler sends: the route, the identity of the caller, the status.
Reply(op, caller, status) == [op |-> op, caller |-> caller, status |-> status]

\* The bodies sent to POST /api/auth/login.
LoginBodies ==
  { [emailOrMobile |-> "admin@gnc.org", mhtId |-> "MHT001"],
    [emailOrMobile |-> "9876543210", mhtId |-> "MHT001"],
    [emailOrMobile |-> "asha@gnc.org", mhtId |-> "MHT002"],
    [emailOrMobile |-> "asha@gnc.org", mhtId |-> "MHT001"],
    [emailOrMobile |-> "9000000000", mhtId |-> "MHT003"],
    [emailOrMobile |-> "", mhtId |-> "MHT001"],
    [emailOrMobile |-> "asha@gnc.org"] }

\* A login that looks the member up by the MHT ID alone.
LoginByMhtIdOnly(body) ==
  LET mhtId   == Property(body, "mhtId")
      matches == {i \in 1..Len(members) : members[i].mhtId = mhtId}
  IN  /\ matches # {}
      /\ LET m == members[CHOOSE i \in matches : TRUE]
         IN  /\ m.userId # Null
             /\ sessions' = sessions \cup
                              {[userId |-> m.userId, memberId |-> m.id]}
             /\ response' = [op |-> "login", status |-> 200,
                             memberId |-> m.id, body |-> body]
      /\ UNCHANGED <<members, users, nextMemberId, attendance, input,
                     output, pollStore, stories, characters, inflight>>

\* POST /api/auth/login
Login(body) ==
  LET emailOrMobile == Property(body, "emailOrMobile")
      mhtId         == Property(body, "mhtId")
      matches == {i \in 1..Len(members) :
                    /\ \/ members[i].email = emailOrMobile
                       \/ members[i].mobile = emailOrMobile
                    /\ members[i].mhtId = mhtId}
      same == UNCHANGED <<members, users, sessions>>
  IN  /\ IF IsFalsy(emailOrMobile) \/ IsFalsy(mhtId)
         THEN /\ response' = [op |-> "login", status |-> 400, body |-> body]
              /\ same
         ELSE IF matches = {}
         THEN /\ response' = [op |-> "login", status |-> 401, body |-> body]
              /\ same
         ELSE LET m == members[CHOOSE i \in matches :
                                 \A j \in matches : i <= j]
              IN  IF IsFalsy(m.userId)
                  THEN LET withUser == InsertUser(Db, m.email)
                           newId    == GeneratedIds[Len(users)]
                       IN  /\ Len(users) < MaxUsers
                           /\ IF withUser.failed
                              THEN /\ response' = [op |-> "login",
                                        status |-> 500, body |-> body]
                                   /\ same
                              ELSE /\ users' = withUser.users
                                   /\ members' = UpdateMember(withUser, m.id,
                                        [userId |-> newId]).members
                                   /\ sessions' = sessions \cup
                                        {[userId |-> newId,
                                          memberId |-> m.id]}
                                   /\ response' = [op |-> "login",
                                        status |-> 200, memberId |-> m.id,
                                        body |-> body]
                  ELSE /\ sessions' = sessions \cup
                            {[userId |-> m.userId, memberId |-> m.id]}
                       /\ response' = [op |-> "login", status |-> 200,
                            memberId |-> m.id, body |-> body]
                       /\ UNCHANGED <<members, users>>
      /\ UNCHANGED <<nextMemberId, attendance, input, output, pollStore,
                     stories, characters, inflight>>

\* The bodies sent to PATCH /api/members/me.
MeBodies ==
  { [name |-> "Asha B", mobile |-> "9000000000"],
    [email |-> "", isAdmin |-> TRUE, mhtId |-> "MHT001",
     userId |-> "sample-admin-user"] }

\* A profile update that passes the whole body to the storage.
PatchMeWholeBody(s, body) ==
  LET member  == Find(members, s.memberId)
      updated == UpdateMemberNoUnique(Db, s.memberId, body)
  IN  /\ member # Absent
      /\ members' = updated.members
      /\ response' = [op |-> "patchMe", caller |-> s.userId,
                      memberId |-> s.memberId, status |-> 200]
      /\ UNCHANGED <<users, sessions, nextMemberId, attendance, input,
                     output, pollStore, stories, characters, inflight>>

\* PATCH /api/members/me.  The session of the login carries memberId, so
\* the member is storage.getMember(memberId); a property the body lacks is
\* undefined in updateData and is not written.
PatchMe(s, body) ==
  LET member == Find(members, s.memberId)
      updateData ==
        (IF "name" \in DOMAIN body THEN [name |-> body.name] ELSE <<>>)
          @@ [email  |-> OrElse(Property(body, "email"), Null),
              mobile |-> OrElse(Property(body, "mobile"), Null)]
      updated == UpdateMember(Db, s.memberId, updateData)
  IN  /\ IF member = Absent
         THEN /\ response' = [op |-> "patchMe", caller |-> s.userId,
                           memberId |-> s.memberId, status |-> 404]
              /\ UNCHANGED members
         ELSE IF updated.failed
         THEN /\ response' = [op |-> "patchMe", caller |-> s.userId,
                           memberId |-> s.memberId, status |-> 500]
              /\ UNCHANGED members
         ELSE /\ members' = updated.members
              /\ response' = [op |-> "patchMe", caller |-> s.userId,
                           memberId |-> s.memberId, status |-> 200]
      /\ UNCHANGED <<users, sessions, nextMemberId, attendance, input,
                     output, pollStore, stories, characters, inflight>>

\* The bodies sent to POST /api/members.
MemberBodies ==
  { [mhtId |-> "MHT002", name |-> "Asha", email |-> "asha@gnc.org"],
    [mhtId |-> "MHT001", name |-> "Second", email |-> "second@gnc.org"],
    [mhtId |-> "MHT003"] }

\* The row the members insert is given: a column the body lacks gets its
\* default.
MemberValues(body, userId) ==
  [mhtId   |-> body.mhtId,
   name    |-> body.name,
   email   |-> OrElse(Property(body, "email"), Null),
   mobile  |-> OrElse(Property(body, "mobile"), Null),
   isAdmin |-> IF "isAdmin" \in DOMAIN body THEN body.isAdmin ELSE FALSE,
   userId  |-> userId]

\* storage.createMember run to its end: the users insert when the body
\* has no userId, then the members insert; a failure of the second leaves
\* the row of the first.
CreateMemberRow(db, body) ==
  LET withUser == IF IsFalsy(Property(body, "userId"))
                  THEN InsertUser(db, Property(body, "email"))
                  ELSE db
      userId   == IF IsFalsy(Property(body, "userId"))
                  THEN GeneratedIds[Len(db.users)]
                  ELSE body.userId
  IN  IF withUser.failed THEN withUser
      ELSE InsertMember(withUser, MemberValues(body, userId))

\* POST /api/members up to the await of the users insert in
\* storage.createMember: the admin check, the schema check of the body
\* (mhtId and name required), and the users row when the body has no
\* userId.
PostMember(slot, s, body) ==
  /\ inflight[slot] = Idle
  /\ \E currentMember \in GetMemberByUserId(members, s.userId) :
       LET withUser == InsertUser(Db, Property(body, "email"))
           same == UNCHANGED <<users, inflight>>
       IN  IF ~CurrentIsAdmin(currentMember)
           THEN response' = Reply("createMember", s.userId, 403) /\ same
           ELSE IF {"mhtId", "name"} \ DOMAIN body # {}
           THEN response' = Reply("createMember", s.userId, 400) /\ same
           ELSE IF ~IsFalsy(Property(body, "userId"))
           THEN /\ inflight' = [inflight EXCEPT ![slot] =
                     [step |-> "insertMember", caller |-> s.userId,
                      provisioned |-> FALSE,
                      member |-> MemberValues(body, body.userId)]]
                /\ UNCHANGED <<users, response>>
           ELSE /\ Len(users) < MaxUsers
                /\ IF withUser.failed
                   THEN response' = Reply("createMember", s.userId, 500)
                        /\ same
                   ELSE /\ users' = withUser.users
                        /\ inflight' = [inflight EXCEPT ![slot] =
                             [step |-> "insertMember", caller |-> s.userId,
                              provisioned |-> TRUE,
                              member |-> MemberValues(body,
                                           GeneratedIds[Len(users)])]]
                        /\ UNCHANGED response
  /\ UNCHANGED <<members, sessions, nextMemberId, attendance, input,
                 output, pollStore, stories, characters>>

\* A members insert whose failure takes the users row of the request back.
PostMemberInsertRollback(slot) ==
  /\ inflight[slot].step = "insertMember"
  /\ LET created == InsertMember(Db, inflight[slot].member)
     IN  /\ \/ created.failed
            \/ Len(members) < MaxAccounts /\ nextMemberId <= MaxMemberIds
         /\ members' = created.members
         /\ nextMemberId' = created.nextMemberId
         /\ users' = IF created.failed
                     THEN SelectSeq(users,
                            LAMBDA u : u.id # inflight[slot].member.userId)
                     ELSE users
         /\ response' = Reply("createMember", inflight[slot].caller,
                               IF created.failed THEN 500 ELSE 201)
  /\ inflight' = [inflight EXCEPT ![slot] = Idle]
  /\ UNCHANGED <<sessions, attendance, input, output, pollStore,
                 stories, characters>>

\* POST /api/members from the members insert on: 201, or 500 when the
\* insert fails.
PostMemberInsert(slot) ==
  /\ inflight[slot].step = "insertMember"
  /\ LET created == InsertMember(Db, inflight[slot].member)
     IN  /\ \/ created.failed
            \/ Len(members) < MaxAccounts /\ nextMemberId <= MaxMemberIds
         /\ members' = created.members
         /\ nextMemberId' = created.nextMemberId
         /\ response' = Reply("createMember", inflight[slot].caller,
                               IF created.failed THEN 500 ELSE 201)
  /\ inflight' = [inflight EXCEPT ![slot] = Idle]
  /\ UNCHANGED <<users, sessions, attendance, input, output, pollStore,
                 stories, characters>>

\* PATCH /api/members/:id; the body goes to the storage as it is.
PatchMember(s, id, body) ==
  /\ \E currentMember \in GetMemberByUserId(members, s.userId) :
       LET updated == UpdateMember(Db, id, body)
       IN  IF ~CurrentIsAdmin(currentMember)
           THEN /\ response' = Reply("updateMember", s.userId, 403)
                /\ UNCHANGED members
           ELSE IF updated.failed
           THEN /\ response' = Reply("updateMember", s.userId, 500)
                /\ UNCHANGED members
           ELSE IF Find(members, id) = Absent
           THEN /\ response' = Reply("updateMember", s.userId, 404)
                /\ UNCHANGED members
           ELSE /\ members' = updated.members
                /\ response' = Reply("updateMember", s.userId, 200)
  /\ UNCHANGED <<users, sessions, nextMemberId, attendance, input, output,
                 pollStore, stories, characters, inflight>>

\* DELETE /api/members/:id
RemoveMember(s, id) ==
  /\ \E currentMember \in GetMemberByUserId(members, s.userId) :
       IF ~CurrentIsAdmin(currentMember)
       THEN /\ response' = Reply("deleteMember", s.userId, 403)
            /\ UNCHANGED <<members, attendance>>
       ELSE /\ members' = SelectSeq(members, LAMBDA m : m.id # id)
            /\ attendance' = SelectSeq(attendance,
                                        LAMBDA a : a.memberId # id)
            /\ response' = Reply("deleteMember", s.userId, 204)
  /\ UNCHANGED <<users, sessions, nextMemberId, input, output, pollStore,
                 stories, characters, inflight>>

\* GET /api/members and GET /api/members/export: the admin check, then
\* the members read and sent (as JSON, as a workbook).
ListMembers(s, op) ==
  /\ \E currentMember \in GetMemberByUserId(members, s.userId) :
       response' = Reply(op, s.userId,
                         IF CurrentIsAdmin(currentMember) THEN 200 ELSE 403)
  /\ UNCHANGED <<members, users, sessions, nextMemberId, attendance, input,
                 output, pollStore, stories, characters, inflight>>

\* A route that skips the admin check.
RemoveStoryUnchecked(s, id) ==
  /\ stories' = [i \in 1..Len(stories) |->
                   IF stories[i].id = id
                   THEN [stories[i] EXCEPT !.isActive = FALSE]
                   ELSE stories[i]]
  /\ response' = Reply("deleteStory", s.userId, 204)
  /\ UNCHANGED <<members, users, sessions, nextMemberId, attendance, input,
                 output, pollStore, characters, inflight>>

\* DELETE /api/stories/:id with its admin check.
RemoveStory(s, id) ==
  /\ \E currentMember \in GetMemberByUserId(members, s.userId) :
       IF ~CurrentIsAdmin(currentMember)
       THEN /\ response' = Reply("deleteStory", s.userId, 403)
            /\ UNCHANGED stories
       ELSE /\ stories' = [i \in 1..Len(stories) |->
                             IF stories[i].id = id
                             THEN [stories[i] EXCEPT !.isActive = FALSE]
                             ELSE stories[i]]
            /\ response' = Reply("deleteStory", s.userId, 204)
  /\ UNCHANGED <<members, users, sessions, nextMemberId, attendance, input,
                 output, pollStore, characters, inflight>>

\* The rows sheet_to_json gives for the uploaded files (a cell left empty
\* is a property the row lacks).
ImportFiles ==
  { << >>,
    << [mhtId |-> " MHT002 ", name |-> "Asha", email |-> "asha@gnc.org",
        isAdmin |-> "yes"],
       [mhtId |-> "MHT002", name |-> "Asha again"],
       [name |-> "No id"] >>,
    << [mhtId |-> "MHT001", name |-> "Second"],
       [mhtId |-> "MHT003", name |-> " "] >> }

\* req.files.file of a request: absent, or one of the files.
Uploads ==
  {[present |-> FALSE]} \cup
  {[present |-> TRUE, rows |-> file] : file \in ImportFiles}

\* (cell || '').toString().trim()
Trim(cell) ==
  CASE cell = " MHT002 " -> "MHT002"
    [] cell = " "        -> ""
    [] IsFalsy(cell)     -> ""
    [] OTHER             -> cell

\* memberData of one row.
MemberData(row) ==
  [mhtId   |-> Trim(Property(row, "mhtId")),
   name    |-> Trim(Property(row, "name")),
   email   |-> OrElse(Trim(Property(row, "email")), Null),
   mobile  |-> OrElse(Trim(Property(row, "mobile")), Null),
   isAdmin |-> OrElse(Property(row, "isAdmin"), "NO")
                 \in {"YES", "yes", "Yes"}]

\* The import after a row: the next row, or res.json(results) after the
\* last one.
ImportAdvance(slot, req) ==
  IF req.k >= Len(req.rows)
  THEN /\ inflight' = [inflight EXCEPT ![slot] = Idle]
       /\ response' = [op |-> "importMembers", caller |-> req.caller,
                       status |-> 200, rows |-> Len(req.rows),
                       success |-> req.success, failed |-> req.failed,
                       errors |-> req.errors]
  ELSE /\ inflight' = [inflight EXCEPT ![slot] =
                         [req EXCEPT !.k = req.k + 1, !.step = "importRow"]]
       /\ UNCHANGED response

\* POST /api/members/import up to the first await of the loop: the admin
\* check, the file check, and results at zero.
ImportMembers(slot, s, upload) ==
  /\ inflight[slot] = Idle
  /\ \E currentMember \in GetMemberByUserId(members, s.userId) :
       IF ~CurrentIsAdmin(currentMember)
       THEN /\ response' = Reply("importMembers", s.userId, 403)
            /\ UNCHANGED inflight
       ELSE IF ~upload.present
       THEN /\ response' = Reply("importMembers", s.userId, 400)
            /\ UNCHANGED inflight
       ELSE IF upload.rows = << >>
       THEN /\ response' = [op |-> "importMembers", caller |-> s.userId,
                            status |-> 200, rows |-> 0, success |-> 0,
                            failed |-> 0, errors |-> << >>]
            /\ UNCHANGED inflight
       ELSE /\ inflight' = [inflight EXCEPT ![slot] =
                 [step |-> "importRow", caller |-> s.userId,
                  rows |-> upload.rows,
                  k |-> 1, success |-> 0, failed |-> 0, errors |-> << >>]]
            /\ UNCHANGED response
  /\ UNCHANGED <<members, users, sessions, nextMemberId, attendance, input,
                 output, pollStore, stories, characters>>

\* A row check that lets every row through to createMember.
ImportRowNoLookup(slot) ==
  /\ inflight[slot].step = "importRow"
  /\ inflight' = [inflight EXCEPT ![slot].step = "importCreate"]
  /\ UNCHANGED <<members, users, sessions, nextMemberId, attendance, input,
                 output, pollStore, stories, characters, response>>

\* One row of the import up to the await of createMember: the required
\* cells, then the stored members read and searched for the MHT ID.
ImportRow(slot) ==
  /\ inflight[slot].step = "importRow"
  /\ LET req        == inflight[slot]
         memberData == MemberData(req.rows[req.k])
     IN  IF IsFalsy(memberData.mhtId) \/ IsFalsy(memberData.name)
         THEN ImportAdvance(slot,
                [req EXCEPT !.failed = req.failed + 1,
                            !.errors = Append(req.errors, "required")])
         ELSE IF \E i \in 1..Len(members) :
                   members[i].mhtId = memberData.mhtId
         THEN ImportAdvance(slot,
                [req EXCEPT !.failed = req.failed + 1,
                            !.errors = Append(req.errors, "exists")])
         ELSE /\ inflight' = [inflight EXCEPT ![slot].step = "importCreate"]
              /\ UNCHANGED response
  /\ UNCHANGED <<members, users, sessions, nextMemberId, attendance, input,
                 output, pollStore, stories, characters>>

\* The createMember of a row and the count of its outcome.
ImportCreate(slot) ==
  /\ inflight[slot].step = "importCreate"
  /\ LET req     == inflight[slot]
         created == CreateMemberRow(Db, MemberData(req.rows[req.k]))
     IN  /\ Len(users) < MaxUsers
         /\ \/ created.failed
            \/ Len(members) < MaxAccounts /\ nextMemberId <= MaxMemberIds
         /\ members' = created.members
         /\ users' = created.users
         /\ nextMemberId' = created.nextMemberId
         /\ IF created.failed
            THEN ImportAdvance(slot,
                   [req EXCEPT !.failed = req.failed + 1,
                               !.errors = Append(req.errors, "error")])
            ELSE ImportAdvance(slot,
                   [req EXCEPT !.success = req.success + 1])
  /\ UNCHANGED <<sessions, attendance, input, output, pollStore, stories,
                 characters>>

\* The store after the first start of the server, nobody logged in and
\* no request suspended.
AccountsInit ==
  LET db == SeedSampleData(EmptyDb)
  IN  /\ members = db.members /\ users = db.users
      /\ stories = db.stories /\ characters = db.characters
      /\ nextMemberId = db.nextMemberId
      /\ attendance = <<>>
      /\ response = NoResponse
      /\ input = NoValue /\ output = NoValue
      /\ notifications = <<>> /\ polls = <<>> /\ pollResponses = <<>>
      /\ sessions = {} /\ inflight = [slot \in Slots |-> Idle]

\* Login, the profile update and the admin routes, with one request
\* suspended at a time.  The admin creates a member with an identity of
\* its own and one given the identity of the default admin, and grants
\* and withdraws the admin flag.
AccountsNext ==
  \/ \E body \in
         { [emailOrMobile |-> "admin@gnc.org", mhtId |-> "MHT001"],
           [emailOrMobile |-> "asha@gnc.org", mhtId |-> "MHT002"] } :
       Login(body)
  \/ \E s \in sessions, body \in MeBodies : PatchMe(s, body)
  \/ \E s \in sessions, body \in
         { [mhtId |-> "MHT002", name |-> "Asha", email |-> "asha@gnc.org"],
           [mhtId |-> "MHT002", name |-> "Twin", isAdmin |-> FALSE,
            userId |-> "sample-admin-user"] } :
       PostMember("a", s, body)
  \/ PostMemberInsert("a")
  \/ \E s \in sessions, id \in 1..MaxMemberIds,
        body \in {[isAdmin |-> TRUE], [isAdmin |-> FALSE]} :
          PatchMember(s, id, body)
  \/ \E s \in sessions, id \in 1..MaxMemberIds : RemoveMember(s, id)
  \/ \E s \in sessions, op \in {"listMembers", "exportMembers"} :
       ListMembers(s, op)
  \/ \E s \in sessions : RemoveStory(s, 1)
  \/ \E s \in sessions : ImportMembers("a", s, [present |-> FALSE])

SpecAccounts == AccountsInit /\ [][AccountsNext]_vars

\* The logins, with the requests that make members to log in as (one with
\* an email, one with a mobile number only) and members without a userId.
LoginNext ==
  \/ \E body \in LoginBodies : Login(body)
  \/ \E s \in sessions, body \in
         { [mhtId |-> "MHT002", name |-> "Asha", email |-> "asha@gnc.org"],
           [mhtId |-> "MHT003", name |-> "Ravi",
            mobile |-> "9000000000"] } :
       PostMember("a", s, body)
  \/ PostMemberInsert("a")
  \/ \E s \in sessions, id \in 1..MaxMemberIds :
       PatchMember(s, id, [userId |-> Null])

SpecLogin == AccountsInit /\ [][LoginNext]_vars

\* The requests that write member rows, two suspended at a time, sent by
\* the default admin.
MemberWritesNext ==
  \/ Login([emailOrMobile |-> "admin@gnc.org", mhtId |-> "MHT001"])
  \/ \E slot \in Slots, s \in sessions, body \in MemberBodies :
       PostMember(slot, s, body)
  \/ \E slot \in Slots : PostMemberInsert(slot)
  \/ \E s \in sessions, id \in 1..MaxMemberIds :
       PatchMember(s, id, [mhtId |-> "MHT001"])
  \/ \E slot \in Slots, s \in sessions, upload \in Uploads :
       ImportMembers(slot, s, upload)
  \/ \E slot \in Slots : ImportRow(slot)
  \/ \E slot \in Slots : ImportCreate(slot)

SpecMemberWrites == AccountsInit /\ [][MemberWritesNext]_vars

\* No two member rows have the same mhtId.
UniqueMhtId ==
  \A i, j \in 1..Len(members) :
    members[i].mhtId = members[j].mhtId => i = j

\* C23: no two stored members share an mhtId, under any interleaving of
\* member creation, import and update requests; a request that replies
\* with an error has created or changed no member.
C23_MhtIdStaysUnique ==
  /\ []UniqueMhtId
  /\ [][ (response' # response /\ response'.status \in {400, 403, 500})
           => members' = members ]_vars

\* A creation was refused although the MHT ID is stored once.
C23_Witness ==
  /\ response.op = "createMember" /\ response.status = 500
  /\ \E i \in 1..Len(members) : members[i].mhtId = "MHT002"

\* C24: when the member insert fails after the users insert of the same
\* request succeeded, the request reports failure, and the users row
\* stays stored with no member referencing it.
C24_FailedInsertLeavesUser ==
  [][ \A slot \in Slots :
        ( /\ inflight[slot].step = "insertMember"
          /\ inflight'[slot] = Idle
          /\ members' = members )
        => /\ response'.op = "createMember" /\ response'.status = 500
           /\ users' = users
           /\ inflight[slot].provisioned =>
                /\ \E u \in 1..Len(users') :
                     users'[u].id = inflight[slot].member.userId
                /\ \A i \in 1..Len(members') :
                     members'[i].userId # inflight[slot].member.userId
    ]_vars

\* A creation has failed and a users row is referenced by no member.
C24_Witness ==
  /\ response.op = "createMember" /\ response.status = 500
  /\ \E u \in 1..Len(users) :
       \A i \in 1..Len(members) : members[i].userId # users[u].id

\* The routes that start with the admin check.
AdminOps ==
  {"createMember", "updateMember", "deleteMember", "listMembers",
   "exportMembers", "importMembers", "deleteStory"}

\* No member row of the identity is an admin.
NonAdminIdentity(userId) ==
  \A i \in 1..Len(members) :
    members[i].userId = userId => ~members[i].isAdmin

\* No stored entity changes in the step.
EntitiesUnchanged ==
  UNCHANGED <<members, users, stories, characters, attendance,
              nextMemberId, pollStore>>

Matches(m, body) ==
  /\ m.mhtId = Property(body, "mhtId")
  /\ \/ m.email = Property(body, "emailOrMobile")
     \/ m.mobile = Property(body, "emailOrMobile")

\* C26: a session is made for member m only by a login whose mhtId is
\* m's and whose emailOrMobile is m's email or mobile; a login lacking a
\* field is answered 400 and one matching no member 401, and then no
\* session is made and nothing stored changes.
C26_LoginNeedsBothFields ==
  [][ /\ \A s \in sessions' \ sessions :
           /\ response'.op = "login" /\ response'.status = 200
           /\ \E i \in 1..Len(members) :
                /\ members[i].id = s.memberId
                /\ Matches(members[i], response'.body)
      /\ (response'.op = "login" /\ response' # response) =>
           /\ ( \/ IsFalsy(Property(response'.body, "emailOrMobile"))
                \/ IsFalsy(Property(response'.body, "mhtId")) )
              => /\ response'.status = 400
                 /\ sessions' = sessions /\ EntitiesUnchanged
           /\ ( /\ ~IsFalsy(Property(response'.body, "emailOrMobile"))
                /\ ~IsFalsy(Property(response'.body, "mhtId"))
                /\ \A i \in 1..Len(members) :
                     ~Matches(members[i], response'.body) )
              => /\ response'.status = 401
                 /\ sessions' = sessions /\ EntitiesUnchanged
    ]_vars

\* A member without an email has logged in by mobile number and MHT ID.
C26_Witness ==
  /\ response.op = "login" /\ response.status = 200
  /\ response.body.emailOrMobile = "9000000000"
  /\ \E s \in sessions : s.memberId = response.memberId

\* The import request of a slot, and its counters after a step (in the
\* reply when the step ends the request).
Importing(slot) == inflight[slot].step \in {"importRow", "importCreate"}

\* The row in hand lacks a required cell or has a stored MHT ID.
RowRefused(req) ==
  LET memberData == MemberData(req.rows[req.k])
  IN  \/ IsFalsy(memberData.mhtId) \/ IsFalsy(memberData.name)
      \/ \E i \in 1..Len(members) : members[i].mhtId = memberData.mhtId

\* C28: for an import of k rows handled in order, success + failed is the
\* number of rows handled and, in the reply, k; success grows exactly when
\* a member is created; a row lacking MHT ID or Name, or whose MHT ID is
\* stored, creates no member, is counted as failed with an error message,
\* and the next row is handled.
C28_ImportCounts ==
  /\ [](\A slot \in Slots : Importing(slot) =>
          /\ inflight[slot].success + inflight[slot].failed
               = inflight[slot].k - 1
          /\ Len(inflight[slot].errors) = inflight[slot].failed)
  /\ []((response.op = "importMembers" /\ response.status = 200) =>
          /\ response.success + response.failed = response.rows
          /\ Len(response.errors) = response.failed)
  /\ [][ \A slot \in Slots :
           (Importing(slot) /\ inflight'[slot] # inflight[slot]) =>
             LET before == inflight[slot]
                 ended  == inflight'[slot] = Idle
                 after  == IF ended THEN response' ELSE inflight'[slot]
             IN  /\ after.success - before.success
                      = Len(members') - Len(members)
                 /\ RowRefused(before) =>
                      /\ members' = members
                      /\ after.failed = before.failed + 1
                      /\ Len(after.errors) = Len(before.errors) + 1
                      /\ ended \/ after.k = before.k + 1
                      /\ ended => before.k = Len(before.rows)
         ]_vars

\* An import of three rows has replied: one member created, two rows
\* failed.
C28_Witness ==
  /\ response.op = "importMembers" /\ response.status = 200
  /\ response.rows = 3 /\ response.success = 1 /\ response.failed = 2

====
